---------------------------- MODULE Spec2Model ----------------------------
(***************************************************************************)
(* Model of the signal/regime engine of the trading bot                    *)
(* (src/core/regime_detector_v2.py, src/core/regime_detector.py).          *)
(*                                                                         *)
(* Numbers.  The program computes in binary floating point.  The model     *)
(* computes in decimal fixed point:                                        *)
(*   - candle values (high, low, close, volume) are integers in cents;     *)
(*   - unrounded indicator values are integers in units of 10^-6 (FP),     *)
(*     the MACD signal line and histogram in units of 10^-7;               *)
(*   - the fields of a MarketState are what round(x, 2) / round(x, 4)      *)
(*     leave: integers in units of 10^-2, resp. 10^-4.                     *)
(* round() is modelled by what it does (nearest multiple of the unit).  At *)
(* an exact decimal tie the float result depends on the representation     *)
(* error of the operand (round(0.825, 2) is 0.83, round(0.525, 2) is 0.52  *)
(* for the products the program forms), so a tie may go either way.        *)
(***************************************************************************)
EXTENDS Integers, Sequences, FiniteSets, TLC

VARIABLES
    high,        \* window: high prices, cents
    low,         \* window: low prices, cents
    close,       \* window: close prices, cents
    volume,      \* window: volumes, cents
    ind,         \* locals of analyze_market_v2 before rounding (FP), or NoInd
    classified,  \* result of a direct detect_regime call, or NoResult
    state,       \* the MarketState, or NoState
    signal,      \* the dict returned by generate_signal, or NoSignal
    analysis,    \* the dict returned by the v1 analyze_market, or NoAnalysis
    rsi,         \* what calculate_rsi of soda_paper_trader returned, or NoRsi
    pc,          \* "window" | "indicators" | "analyzed" | "signalled" | "raised"
    prog,        \* the program that runs: "bot" | "paper" | "backtest" |
                 \* "single_backtest" | "compare" (both backtests on the
                 \* same input) | "optimize" | "alerts", or "none"
    bot,         \* TradingBot.state: balance, positions, trades
    call,        \* the arguments of the latest execute_signal call, or NoCall
    bt,          \* the locals of Backtester.run
    sb,          \* the locals of run_single_backtest
    opt,         \* the locals of optimize
    alerter,     \* a DiscordAlerts object and the arguments and result of
                 \* the latest call of a formatter
    paper        \* the state dict of soda_paper_trader

engine_vars == <<high, low, close, volume, ind, classified, state, signal,
                 analysis, rsi, pc>>

trade_vars == <<prog, bot, call, bt, sb, opt, alerter, paper>>

vars == <<high, low, close, volume, ind, classified, state, signal, analysis,
          rsi, pc, prog, bot, call, bt, sb, opt, alerter, paper>>

NoInd == [none |-> "ind"]
NoResult == [none |-> "result"]
NoState == [none |-> "state"]
NoSignal == [none |-> "signal"]
NoAnalysis == [none |-> "analysis"]
NoRsi == [none |-> "rsi"]
NoCall == [none |-> "call"]
\* a program that is not running
Idle == [pc |-> "idle"]
\* Python's None
None == [none |-> "None"]
\* a float that may be nan: the finite value x in FP, and the nan that
\* np.mean of an empty array gives (and whatever is computed from it)
Float(x) == [nan |-> FALSE, value |-> x]
NaN == [nan |-> TRUE, value |-> 0]
\* close[-1] of an empty array
IndexError == [raised |-> "IndexError"]

-----------------------------------------------------------------------------
(* Fixed point *)

\* one unit of an unrounded value is 10^-6
FP == 10^6
\* FP units per 10^-2: round(x, 2) keeps multiples of 10^-2
FPperDec2 == 10^4
\* FP units per 10^-4: round(x, 4) keeps multiples of 10^-4
FPperDec4 == 10^2
\* the value 1 in a field rounded to 2 decimals, and in a candle value
Dec2 == 10^2

\* round(x, n) for x in FP units, the result in units of `unit` FP:
\* the set of values the float round can give.
Round(x, unit) ==
    LET q == x \div unit
        r == x % unit
    IN  IF 2 * r < unit THEN {q}
        ELSE IF 2 * r > unit THEN {q + 1}
        ELSE {q, q + 1}

Max(a, b) == IF a >= b THEN a ELSE b
Min(a, b) == IF a <= b THEN a ELSE b
Abs(a) == IF a >= 0 THEN a ELSE -a

-----------------------------------------------------------------------------
(* Fixed-point division and sequence helpers *)

\* a \div b rounded to the nearest integer, b > 0
RoundDiv(a, b) ==
    LET q == a \div b
        r == a % b
    IN  IF 2 * r >= b THEN q + 1 ELSE q

\* <<q, r>> with num * 10^k = q * den + r and 0 <= r < den (long division,
\* one decimal digit at a time, so that no intermediate exceeds 10 * den)
RECURSIVE ScaledDivRem(_, _, _)
ScaledDivRem(num, den, k) ==
    IF k = 0 THEN <<num \div den, num % den>>
    ELSE LET p == ScaledDivRem(num, den, k - 1)
         IN  <<p[1] * 10 + (p[2] * 10) \div den, (p[2] * 10) % den>>

\* num * 10^k / den to the nearest integer, den > 0
ScaledDiv(num, den, k) ==
    LET p == ScaledDivRem(num, den, k)
    IN  IF 2 * p[2] >= den THEN p[1] + 1 ELSE p[1]

\* arr[a] + ... + arr[b]
RECURSIVE SumRange(_, _, _)
SumRange(arr, a, b) ==
    IF a > b THEN 0 ELSE arr[b] + SumRange(arr, a, b - 1)

\* the trailing k elements (arr[-k:] for 0 < k <= len)
Tail_(arr, k) == SubSeq(arr, Len(arr) - k + 1, Len(arr))

-----------------------------------------------------------------------------
(* Indicator library, regime_detector_v2.py.  Arguments are candle series *)
(* in cents, results are in FP.                                           *)

\* np.mean of a non-empty series of cents, in FP
MeanFP(arr) == ScaledDiv(SumRange(arr, 1, Len(arr)), Len(arr), 4)

\* sum of the gains (sign = 1) or of the losses (sign = -1) among the
\* deltas arr[i] - arr[i-1] for i in a..b
RECURSIVE SumMoves(_, _, _, _)
SumMoves(arr, a, b, sign) ==
    IF a > b THEN 0
    ELSE Max(sign * (arr[b] - arr[b - 1]), 0) + SumMoves(arr, a, b - 1, sign)

\* tests the average gain first and returns 0 on a window without gains
calculate_rsi_gain_first(prices, period) ==
    IF Len(prices) < period + 1 THEN 50 * FP
    ELSE LET n == Len(prices)
             gain == SumMoves(prices, n - period + 1, n, 1)
             loss == SumMoves(prices, n - period + 1, n, -1)
         IN  IF gain = 0 THEN 0
             ELSE 100 * FP - ScaledDiv(100 * loss, gain + loss, 6)

\* defaults only an array without a delta, and averages the deltas that
\* exist when there are fewer than period of them
calculate_rsi_available_deltas(prices, period) ==
    IF Len(prices) < 2 THEN 50 * FP
    ELSE LET n == Len(prices)
             gain == SumMoves(prices, Max(n - period + 1, 2), n, 1)
             loss == SumMoves(prices, Max(n - period + 1, 2), n, -1)
         IN  IF loss = 0 THEN 100 * FP
             ELSE 100 * FP - ScaledDiv(100 * loss, gain + loss, 6)

calculate_rsi(prices, period) ==
    IF Len(prices) < period + 1 THEN 50 * FP
    ELSE LET n == Len(prices)
             gain == SumMoves(prices, n - period + 1, n, 1)
             loss == SumMoves(prices, n - period + 1, n, -1)
         IN  IF loss = 0 THEN 100 * FP
             ELSE 100 * FP - ScaledDiv(100 * loss, gain + loss, 6)

\* calculate_rsi of soda_paper_trader.py: no length guard.  The deltas are
\* those of the whole array, the means are taken over the trailing period
\* deltas or over all of them when there are fewer; with no delta at all
\* both means are nan, nan == 0 is false and the result is nan.
soda_calculate_rsi(closes, period) ==
    LET n == Len(closes)
        k == Min(period, n - 1)
        gain == SumMoves(closes, n - k + 1, n, 1)
        loss == SumMoves(closes, n - k + 1, n, -1)
    IN  IF n < 2 THEN NaN
        ELSE IF loss = 0 THEN Float(100 * FP)
        ELSE Float(100 * FP - ScaledDiv(100 * loss, gain + loss, 6))

\* ema = (price - ema) * 2 / (period + 1) + ema, left to right from data[i]
RECURSIVE EmaFrom(_, _, _, _)
EmaFrom(data, period, i, ema) ==
    IF i > Len(data) THEN ema
    ELSE LET nxt == RoundDiv((data[i] * FPperDec2 - ema) * 2, period + 1) + ema
         IN  IF nxt = nxt THEN EmaFrom(data, period, i + 1, nxt) ELSE nxt

\* the ema() nested in calculate_macd
macd_ema(data, period) == EmaFrom(data, period, 2, data[1] * FPperDec2)

\* CONFIG['rsi_period'] of soda_paper_trader.py
rsi_period == 14

fast == 12
slow == 26
signal_period == 9

\* lines 104-107: signal_line = macd_line * 0.9, histogram = macd_line -
\* signal_line; <<macd_line, signal_line, histogram>>.  The signal line and
\* the histogram are in tenths of an FP unit, in which the product by 0.9
\* and the difference are exact (a float histogram is 0 only if the MACD
\* line is).
macd_triple(macd_line) ==
    <<macd_line, 9 * macd_line, 10 * macd_line - 9 * macd_line>>

calculate_macd(prices) ==
    IF Len(prices) < slow + signal_period THEN <<0, 0, 0>>
    ELSE macd_triple(macd_ema(Tail_(prices, fast + signal_period), fast)
                     - macd_ema(Tail_(prices, slow + signal_period), slow))

\* true range of bar i >= 2, cents
TrueRange(h, l, c, i) ==
    Max(h[i] - l[i], Max(Abs(h[i] - c[i - 1]), Abs(l[i] - c[i - 1])))

\* +DM and -DM of bar i >= 2, cents
PlusDM(h, l, i) ==
    LET up == h[i] - h[i - 1]
        down == l[i - 1] - l[i]
    IN  IF up > down /\ up > 0 THEN up ELSE 0

MinusDM(h, l, i) ==
    LET up == h[i] - h[i - 1]
        down == l[i - 1] - l[i]
    IN  IF down > up /\ down > 0 THEN down ELSE 0

\* result[i] = result[i-1] - result[i-1] / period + arr[i]
RECURSIVE WilderFrom(_, _, _, _, _)
WilderFrom(arr, period, i, prev, acc) ==
    IF i > Len(arr) THEN acc
    ELSE LET nxt == prev - RoundDiv(prev, period) + arr[i]
             out == Append(acc, nxt)
         IN  IF Len(out) = i THEN WilderFrom(arr, period, i + 1, nxt, out)
             ELSE out

\* wilder_smooth of a series in FP with Len(arr) >= period: zeros before
\* index period, the mean of the first period elements there, then the
\* recursion
wilder_smooth(arr, period) ==
    LET seed == RoundDiv(SumRange(arr, 1, period), period)
    IN  WilderFrom(arr, period, period + 1, seed,
                   [k \in 1..period |-> IF k < period THEN 0 ELSE seed])

\* 100 * num / (den if den > 0 else 1), num and den in FP
Ratio100(num, den) ==
    IF den > 0 THEN ScaledDiv(num, den, 8) ELSE 100 * num

\* the series [e(1), ..., e(m)] of bars 2..m+1 as a sequence
TrueRanges(h, l, c, m) ==
    SubSeq([k \in 1..m |-> TrueRange(h, l, c, k + 1)], 1, m)

ScaleSeries(arr, m) == SubSeq([k \in 1..m |-> arr[k] * FPperDec2], 1, m)

\* 100 * num[k] / (den[k] if den[k] > 0 else 1), elementwise
RatioSeries(num, den, m) ==
    SubSeq([k \in 1..m |-> Ratio100(num[k], den[k])], 1, m)

\* 100 * |plus_di - minus_di| / (di_sum if di_sum > 0 else 1), elementwise
DxSeries(plus_di, minus_di, m) ==
    SubSeq([k \in 1..m |-> Ratio100(Abs(plus_di[k] - minus_di[k]),
                                    plus_di[k] + minus_di[k])], 1, m)

calculate_adx(h, l, c, period) ==
    IF Len(c) < period + 1 THEN 0
    ELSE LET m == Len(c) - 1
             tr == ScaleSeries(TrueRanges(h, l, c, m), m)
             plus_dm == SubSeq([k \in 1..m |-> PlusDM(h, l, k + 1) * FPperDec2], 1, m)
             minus_dm == SubSeq([k \in 1..m |-> MinusDM(h, l, k + 1) * FPperDec2], 1, m)
             atr == wilder_smooth(tr, period)
             plus_di == RatioSeries(wilder_smooth(plus_dm, period), atr, m)
             minus_di == RatioSeries(wilder_smooth(minus_dm, period), atr, m)
             adx == wilder_smooth(DxSeries(plus_di, minus_di, m), period)
         IN  adx[m]

calculate_atr(h, l, c, period) ==
    IF Len(c) < period + 1 THEN 0
    ELSE LET m == Len(c) - 1
         IN  ScaledDiv(SumRange(TrueRanges(h, l, c, m), m - period + 1, m),
                       period, 4)

calculate_sma(prices, period) ==
    IF Len(prices) < period
    THEN IF Len(prices) > 0 THEN prices[Len(prices)] * FPperDec2 ELSE 0
    ELSE MeanFP(Tail_(prices, period))

calculate_ema(prices, period) ==
    IF Len(prices) < 2
    THEN IF Len(prices) > 0 THEN prices[Len(prices)] * FPperDec2 ELSE 0
    ELSE EmaFrom(prices, period, 2, prices[1] * FPperDec2)

-----------------------------------------------------------------------------
(* Regime classifier: detect_regime, regime_detector_v2.py *)

adx_trend_threshold == 25 * FP
adx_range_threshold == 20 * FP

\* base multipliers, in FP
BearMult == 750000
BullMult == 1000000
RangingMult == 1250000
NeutralMult == 500000

detect_regime_ge(adx, price, sma_50) ==
    IF adx >= adx_trend_threshold
    THEN IF price < sma_50
         THEN <<"BEAR_TREND", "RSI_MOMENTUM", BearMult>>
         ELSE <<"BULL_TREND", "MEAN_REVERSION", BullMult>>
    ELSE IF adx < adx_range_threshold
         THEN <<"RANGING", "MEAN_REVERSION", RangingMult>>
         ELSE <<"NEUTRAL", "MEAN_REVERSION", NeutralMult>>

\* a classifier that follows the momentum whenever the trend is unclear
detect_regime_neutral_momentum(adx, price, sma_50) ==
    IF adx > adx_trend_threshold
    THEN IF price < sma_50
         THEN <<"BEAR_TREND", "RSI_MOMENTUM", BearMult>>
         ELSE <<"BULL_TREND", "MEAN_REVERSION", BullMult>>
    ELSE IF adx < adx_range_threshold
         THEN <<"RANGING", "MEAN_REVERSION", RangingMult>>
         ELSE <<"NEUTRAL", "RSI_MOMENTUM", NeutralMult>>

detect_regime(adx, price, sma_50) ==
    IF adx > adx_trend_threshold
    THEN IF price < sma_50
         THEN <<"BEAR_TREND", "RSI_MOMENTUM", BearMult>>
         ELSE <<"BULL_TREND", "MEAN_REVERSION", BullMult>>
    ELSE IF adx < adx_range_threshold
         THEN <<"RANGING", "MEAN_REVERSION", RangingMult>>
         ELSE <<"NEUTRAL", "MEAN_REVERSION", NeutralMult>>

-----------------------------------------------------------------------------
(* analyze_market_v2, lines 260-297: sizing, clamp and the rounded record *)

MinMult == 250000
MaxMult == 1500000

\* lines 263-276: pos_mult after the volatility and volume adjustments
position_multiplier_noclamp(base, atr_percent, vol_ratio) ==
    LET m1 == IF atr_percent > 5 * FP THEN (base * 7) \div 10
              ELSE IF atr_percent < 2 * FP THEN (base * 12) \div 10
              ELSE base
        m2 == IF vol_ratio > (15 * FP) \div 10 THEN (m1 * 11) \div 10
              ELSE IF vol_ratio < (5 * FP) \div 10 THEN (m1 * 8) \div 10
              ELSE m1
    IN  m2

position_multiplier_volfirst(base, atr_percent, vol_ratio) ==
    LET m1 == IF atr_percent > 5 * FP THEN (base * 7) \div 10
              ELSE IF atr_percent < 2 * FP THEN (base * 12) \div 10
              ELSE base
        m2 == IF vol_ratio < (5 * FP) \div 10 THEN (m1 * 11) \div 10
              ELSE IF vol_ratio > (15 * FP) \div 10 THEN (m1 * 8) \div 10
              ELSE m1
    IN  Max(MinMult, Min(MaxMult, m2))

\* the cap of the comment at MarketState: never below 0.5
position_multiplier_floor_half(base, atr_percent, vol_ratio) ==
    LET m1 == IF atr_percent > 5 * FP THEN (base * 7) \div 10
              ELSE IF atr_percent < 2 * FP THEN (base * 12) \div 10
              ELSE base
        m2 == IF vol_ratio > (15 * FP) \div 10 THEN (m1 * 11) \div 10
              ELSE IF vol_ratio < (5 * FP) \div 10 THEN (m1 * 8) \div 10
              ELSE m1
    IN  Max(2 * MinMult, Min(MaxMult, m2))

position_multiplier(base, atr_percent, vol_ratio) ==
    LET m1 == IF atr_percent > 5 * FP THEN (base * 7) \div 10
              ELSE IF atr_percent < 2 * FP THEN (base * 12) \div 10
              ELSE base
        m2 == IF vol_ratio > (15 * FP) \div 10 THEN (m1 * 11) \div 10
              ELSE IF vol_ratio < (5 * FP) \div 10 THEN (m1 * 8) \div 10
              ELSE m1
    IN  Max(MinMult, Min(MaxMult, m2))

\* lines 234-258: the locals of analyze_market_v2 for a non-empty window
Indicators(h, l, c, v) ==
    LET price == c[Len(c)] * FPperDec2
        macd == calculate_macd(c)
        atr_14 == calculate_atr(h, l, c, 14)
        vol == IF Len(v) > 0 THEN v[Len(v)] * FPperDec2 ELSE 0
        vol_sma == calculate_sma(v, 20)
    IN  [ price |-> price,
          sma_50 |-> calculate_sma(c, 50),
          ema_20 |-> calculate_ema(c, 20),
          ema_200 |-> calculate_ema(c, 200),
          rsi_7 |-> calculate_rsi(c, 7),
          rsi_14 |-> calculate_rsi(c, 14),
          adx |-> calculate_adx(h, l, c, 14),
          macd |-> macd[1], macd_signal |-> macd[2], macd_histogram |-> macd[3],
          atr_14 |-> atr_14,
          atr_percent |-> IF price > 0 THEN ScaledDiv(atr_14, price, 8) ELSE 0,
          vol |-> vol,
          vol_sma |-> vol_sma,
          vol_ratio |-> IF vol_sma > 0 THEN ScaledDiv(vol, vol_sma, 6) ELSE FP ]

\* lines 260-297: the MarketStates analyze_market_v2 can return for the
\* unrounded locals i (more than one only at a rounding tie)
MarketStates(i) ==
    LET r == detect_regime(i.adx, i.price, i.sma_50)
        m == position_multiplier(r[3], i.atr_percent, i.vol_ratio)
    IN  { [ price |-> p, sma_50 |-> s50, ema_20 |-> e20, ema_200 |-> e200,
            rsi_7 |-> r7, rsi_14 |-> r14, adx |-> a,
            macd |-> mc, macd_signal |-> ms, macd_histogram |-> mh,
            atr_14 |-> at, atr_percent |-> ap,
            volume |-> v, volume_sma |-> vs, volume_ratio |-> vr,
            regime |-> r[1], strategy |-> r[2],
            position_size_multiplier |-> pm ] :
          p \in Round(i.price, FPperDec2), s50 \in Round(i.sma_50, FPperDec2),
          e20 \in Round(i.ema_20, FPperDec2), e200 \in Round(i.ema_200, FPperDec2),
          r7 \in Round(i.rsi_7, FPperDec2), r14 \in Round(i.rsi_14, FPperDec2),
          a \in Round(i.adx, FPperDec2),
          mc \in Round(i.macd, FPperDec4),
          ms \in Round(i.macd_signal, 10 * FPperDec4),
          mh \in Round(i.macd_histogram, 10 * FPperDec4),
          at \in Round(i.atr_14, FPperDec2), ap \in Round(i.atr_percent, FPperDec2),
          v \in Round(i.vol, FPperDec2), vs \in Round(i.vol_sma, FPperDec2),
          vr \in Round(i.vol_ratio, FPperDec2),
          pm \in Round(m, FPperDec2) }

-----------------------------------------------------------------------------
(* The v1 detector, regime_detector.py.  Its calculate_adx and *)
(* calculate_sma are the same code as the v2 ones above.        *)

calculate_ema_v1(prices, period) ==
    IF Len(prices) < period
    THEN IF Len(prices) > 0 THEN prices[Len(prices)] * FPperDec2 ELSE 0
    ELSE EmaFrom(prices, period, 2, prices[1] * FPperDec2)

get_strategy(regime) ==
    IF regime = "BEAR_TREND" THEN "RSI_MOMENTUM" ELSE "MEAN_REVERSION"

\* the trend test with >= in place of >
detect_regime_v1_ge(adx, current_price, sma) ==
    <<IF adx >= adx_trend_threshold /\ current_price < sma
      THEN "BEAR_TREND" ELSE "DEFAULT",
      adx >= adx_trend_threshold,
      current_price < sma>>

\* <<regime, is_trending, is_below_sma>> for the unrounded adx, price, sma
detect_regime_v1(adx, current_price, sma) ==
    <<IF adx > adx_trend_threshold /\ current_price < sma
      THEN "BEAR_TREND" ELSE "DEFAULT",
      adx > adx_trend_threshold,
      current_price < sma>>

\* the dicts analyze_market can return for a non-empty window
analyze_market(h, l, c) ==
    LET current_price == c[Len(c)] * FPperDec2
        adx == calculate_adx(h, l, c, 14)
        sma == calculate_sma(c, 50)
        ema_200 == calculate_ema_v1(c, 200)
        r == detect_regime_v1(adx, current_price, sma)
    IN  { [ regime |-> r[1], strategy |-> get_strategy(r[1]),
            price |-> current_price, adx |-> a, sma_50 |-> s50, ema_200 |-> e200,
            is_trending |-> r[2], is_below_sma |-> r[3],
            is_below_ema200 |-> current_price < ema_200 ] :
          a \in Round(adx, FPperDec2), s50 \in Round(sma, FPperDec2),
          e200 \in Round(ema_200, FPperDec2) }

-----------------------------------------------------------------------------
(* generate_signal *)

\* line 354
clamp_confidence(c) == Max(0, Min(100, c))

\* lines 314-342: <<action, confidence, reasons>> after the strategy branch
strategy_branch_nonstrict(s) ==
    IF s.strategy = "MEAN_REVERSION"
    THEN LET a == IF s.rsi_7 <= 30 * Dec2 /\ s.rsi_14 <= 40 * Dec2 THEN "BUY"
                  ELSE IF s.rsi_7 >= 70 * Dec2 /\ s.rsi_14 >= 60 * Dec2 THEN "SELL"
                  ELSE "HOLD"
             c == IF a = "HOLD" THEN 50 ELSE 70
             rs == IF a = "BUY" THEN <<"RSI oversold">>
                   ELSE IF a = "SELL" THEN <<"RSI overbought">>
                   ELSE << >>
         IN  IF a = "BUY" /\ s.macd_histogram > 0
             THEN <<a, c + 10, Append(rs, "MACD bullish confirmation")>>
             ELSE IF a = "SELL" /\ s.macd_histogram < 0
             THEN <<a, c + 10, Append(rs, "MACD bearish confirmation")>>
             ELSE <<a, c, rs>>
    ELSE IF s.rsi_14 >= 50 * Dec2 /\ s.macd_histogram >= 0 /\ s.price >= s.ema_20
         THEN <<"BUY", 65, <<"Momentum bullish: RSI>50, MACD+, Price>EMA20">> >>
         ELSE IF s.rsi_14 <= 50 * Dec2 /\ s.macd_histogram <= 0 /\ s.price <= s.ema_20
         THEN <<"SELL", 65, <<"Momentum bearish: RSI<50, MACD-, Price<EMA20">> >>
         ELSE <<"HOLD", 50, << >> >>

strategy_branch_swapped_thresholds(s) ==
    IF s.strategy = "MEAN_REVERSION"
    THEN LET a == IF s.rsi_7 < 40 * Dec2 /\ s.rsi_14 < 30 * Dec2 THEN "BUY"
                  ELSE IF s.rsi_7 > 60 * Dec2 /\ s.rsi_14 > 70 * Dec2 THEN "SELL"
                  ELSE "HOLD"
             c == IF a = "HOLD" THEN 50 ELSE 70
             rs == IF a = "BUY" THEN <<"RSI oversold">>
                   ELSE IF a = "SELL" THEN <<"RSI overbought">>
                   ELSE << >>
         IN  IF a = "BUY" /\ s.macd_histogram > 0
             THEN <<a, c + 10, Append(rs, "MACD bullish confirmation")>>
             ELSE IF a = "SELL" /\ s.macd_histogram < 0
             THEN <<a, c + 10, Append(rs, "MACD bearish confirmation")>>
             ELSE <<a, c, rs>>
    ELSE IF s.rsi_14 > 50 * Dec2 /\ s.macd_histogram > 0 /\ s.price > s.ema_20
         THEN <<"BUY", 65, <<"Momentum bullish: RSI>50, MACD+, Price>EMA20">> >>
         ELSE IF s.rsi_14 < 50 * Dec2 /\ s.macd_histogram < 0 /\ s.price < s.ema_20
         THEN <<"SELL", 65, <<"Momentum bearish: RSI<50, MACD-, Price<EMA20">> >>
         ELSE <<"HOLD", 50, << >> >>

strategy_branch_macd_anysign(s) ==
    IF s.strategy = "MEAN_REVERSION"
    THEN LET a == IF s.rsi_7 < 30 * Dec2 /\ s.rsi_14 < 40 * Dec2 THEN "BUY"
                  ELSE IF s.rsi_7 > 70 * Dec2 /\ s.rsi_14 > 60 * Dec2 THEN "SELL"
                  ELSE "HOLD"
             c == IF a = "HOLD" THEN 50 ELSE 70
             rs == IF a = "BUY" THEN <<"RSI oversold">>
                   ELSE IF a = "SELL" THEN <<"RSI overbought">>
                   ELSE << >>
         IN  IF a = "BUY" /\ s.macd_histogram # 0
             THEN <<a, c + 10, Append(rs, "MACD bullish confirmation")>>
             ELSE IF a = "SELL" /\ s.macd_histogram # 0
             THEN <<a, c + 10, Append(rs, "MACD bearish confirmation")>>
             ELSE <<a, c, rs>>
    ELSE IF s.rsi_14 > 50 * Dec2 /\ s.macd_histogram > 0 /\ s.price > s.ema_20
         THEN <<"BUY", 65, <<"Momentum bullish: RSI>50, MACD+, Price>EMA20">> >>
         ELSE IF s.rsi_14 < 50 * Dec2 /\ s.macd_histogram < 0 /\ s.price < s.ema_20
         THEN <<"SELL", 65, <<"Momentum bearish: RSI<50, MACD-, Price<EMA20">> >>
         ELSE <<"HOLD", 50, << >> >>

strategy_branch_macd_everywhere(s) ==
    LET b == IF s.strategy = "MEAN_REVERSION"
             THEN IF s.rsi_7 < 30 * Dec2 /\ s.rsi_14 < 40 * Dec2
                  THEN <<"BUY", 70, <<"RSI oversold">> >>
                  ELSE IF s.rsi_7 > 70 * Dec2 /\ s.rsi_14 > 60 * Dec2
                  THEN <<"SELL", 70, <<"RSI overbought">> >>
                  ELSE <<"HOLD", 50, << >> >>
             ELSE IF s.rsi_14 > 50 * Dec2 /\ s.macd_histogram > 0 /\ s.price > s.ema_20
                  THEN <<"BUY", 65, <<"Momentum bullish: RSI>50, MACD+, Price>EMA20">> >>
                  ELSE IF s.rsi_14 < 50 * Dec2 /\ s.macd_histogram < 0 /\ s.price < s.ema_20
                  THEN <<"SELL", 65, <<"Momentum bearish: RSI<50, MACD-, Price<EMA20">> >>
                  ELSE <<"HOLD", 50, << >> >>
    IN  IF s.macd_histogram > 0 /\ b[1] # "SELL"
        THEN <<b[1], b[2] + 10, Append(b[3], "MACD bullish confirmation")>>
        ELSE IF s.macd_histogram < 0 /\ b[1] # "BUY"
        THEN <<b[1], b[2] + 10, Append(b[3], "MACD bearish confirmation")>>
        ELSE b

strategy_branch(s) ==
    IF s.strategy = "MEAN_REVERSION"
    THEN LET a == IF s.rsi_7 < 30 * Dec2 /\ s.rsi_14 < 40 * Dec2 THEN "BUY"
                  ELSE IF s.rsi_7 > 70 * Dec2 /\ s.rsi_14 > 60 * Dec2 THEN "SELL"
                  ELSE "HOLD"
             c == IF a = "HOLD" THEN 50 ELSE 70
             rs == IF a = "BUY" THEN <<"RSI oversold">>
                   ELSE IF a = "SELL" THEN <<"RSI overbought">>
                   ELSE << >>
         IN  IF a = "BUY" /\ s.macd_histogram > 0
             THEN <<a, c + 10, Append(rs, "MACD bullish confirmation")>>
             ELSE IF a = "SELL" /\ s.macd_histogram < 0
             THEN <<a, c + 10, Append(rs, "MACD bearish confirmation")>>
             ELSE <<a, c, rs>>
    ELSE IF s.rsi_14 > 50 * Dec2 /\ s.macd_histogram > 0 /\ s.price > s.ema_20
         THEN <<"BUY", 65, <<"Momentum bullish: RSI>50, MACD+, Price>EMA20">> >>
         ELSE IF s.rsi_14 < 50 * Dec2 /\ s.macd_histogram < 0 /\ s.price < s.ema_20
         THEN <<"SELL", 65, <<"Momentum bearish: RSI<50, MACD-, Price<EMA20">> >>
         ELSE <<"HOLD", 50, << >> >>

\* lines 344-352: <<confidence, reasons>> after the volume and regime rules
universal_adjustments_hold_exempt(s, b) ==
    LET c1 == IF s.volume_ratio > (15 * Dec2) \div 10 /\ b[1] # "HOLD"
              THEN b[2] + 10 ELSE b[2]
        r1 == IF s.volume_ratio > (15 * Dec2) \div 10 /\ b[1] # "HOLD"
              THEN Append(b[3], "High volume") ELSE b[3]
        c2 == IF s.regime = "NEUTRAL" /\ b[1] # "HOLD" THEN c1 - 15 ELSE c1
        r2 == IF s.regime = "NEUTRAL" /\ b[1] # "HOLD"
              THEN Append(r1, "Neutral regime - reduced confidence") ELSE r1
    IN  <<c2, r2>>

universal_adjustments(s, b) ==
    LET c1 == IF s.volume_ratio > (15 * Dec2) \div 10 THEN b[2] + 10 ELSE b[2]
        r1 == IF s.volume_ratio > (15 * Dec2) \div 10
              THEN Append(b[3], "High volume") ELSE b[3]
        c2 == IF s.regime = "NEUTRAL" THEN c1 - 15 ELSE c1
        r2 == IF s.regime = "NEUTRAL"
              THEN Append(r1, "Neutral regime - reduced confidence") ELSE r1
    IN  <<c2, r2>>

generate_signal_accumulating(s) ==
    LET b == strategy_branch(s)
        u == universal_adjustments(s, <<b[1], IF b[1] = "HOLD" THEN b[2] ELSE 50 + b[2], b[3]>>)
    IN  [ action |-> b[1],
          strategy |-> s.strategy,
          regime |-> s.regime,
          confidence |-> u[1],
          position_size |-> s.position_size_multiplier,
          reasoning |-> IF u[2] # << >> THEN u[2] ELSE <<"No clear signal">>,
          state |-> [ price |-> s.price, rsi_7 |-> s.rsi_7, rsi_14 |-> s.rsi_14,
                      adx |-> s.adx, macd_hist |-> s.macd_histogram,
                      volume_ratio |-> s.volume_ratio ] ]

\* the sentinel on every HOLD, whatever the volume and regime rules added
generate_signal_sentinel_on_hold(s) ==
    LET b == strategy_branch(s)
        u == universal_adjustments(s, b)
    IN  [ action |-> b[1],
          strategy |-> s.strategy,
          regime |-> s.regime,
          confidence |-> clamp_confidence(u[1]),
          position_size |-> s.position_size_multiplier,
          reasoning |-> IF b[1] # "HOLD" THEN u[2] ELSE <<"No clear signal">>,
          state |-> [ price |-> s.price, rsi_7 |-> s.rsi_7, rsi_14 |-> s.rsi_14,
                      adx |-> s.adx, macd_hist |-> s.macd_histogram,
                      volume_ratio |-> s.volume_ratio ] ]

\* lines 300-371.  A reason is modelled by its fixed text, without the
\* numbers the f-strings insert; the reasoning is the list that "; ".join
\* receives, or the sentinel alone.
generate_signal(s) ==
    LET b == strategy_branch(s)
        u == universal_adjustments(s, b)
    IN  [ action |-> b[1],
          strategy |-> s.strategy,
          regime |-> s.regime,
          confidence |-> clamp_confidence(u[1]),
          position_size |-> s.position_size_multiplier,
          reasoning |-> IF u[2] # << >> THEN u[2] ELSE <<"No clear signal">>,
          state |-> [ price |-> s.price, rsi_7 |-> s.rsi_7, rsi_14 |-> s.rsi_14,
                      adx |-> s.adx, macd_hist |-> s.macd_histogram,
                      volume_ratio |-> s.volume_ratio ] ]

-----------------------------------------------------------------------------
(* The trading programs: bot.py, backtest.py, optimize.py.  They act on     *)
(* the CompositeSignal of the five-level engine (signal_engine, whose       *)
(* output is an input here).  Prices and balances are in cents, quantities  *)
(* in units of 10^-4, stop-loss, take-profit and position size in percent.  *)

SignalTypes == {"STRONG_LONG", "LONG", "NEUTRAL", "SHORT", "STRONG_SHORT"}

\* defaults of Backtester.__init__ and of run_single_backtest
starting_balance == 10000 * Dec2
position_size_pct == 10
stop_loss_pct == 3
take_profit_pct == 5
min_confidence == 65
lookback == 50

\* defaults of TradingBot.__init__, and the confidence execute_signal asks
bot_position_size_pct == 5
bot_stop_loss_pct == 5
bot_take_profit_pct == 5
bot_min_confidence == 65

\* CONFIG of soda_paper_trader
paper_position_size_pct == 5
paper_stop_loss_pct == 5
paper_take_profit_pct == 5

\* side = 'long' if signal.signal in [LONG, STRONG_LONG] else 'short'
SideOf(s) == IF s.signal \in {"LONG", "STRONG_LONG"} THEN "long" ELSE "short"

\* qty = (balance * pct) / price
Quantity(balance, pct, price) == ScaledDiv(RoundDiv(balance * pct, 100), price, 4)

\* pnl_pct = (current_price - entry_price) / entry_price, negated for a
\* short, compared with -stop_loss_pct and with take_profit_pct (exact)
AdjustedMove(pos, price) ==
    (IF pos.side = "short" THEN -1 ELSE 1) * (price - pos.entry_price)

HitsStop(pos, price, sl) == AdjustedMove(pos, price) * 100 <= -sl * pos.entry_price

HitsTarget(pos, price, tp) == AdjustedMove(pos, price) * 100 >= tp * pos.entry_price

\* pnl = (price - entry_price) * qty, negated for a short, in cents
Pnl(pos, price) == RoundDiv(AdjustedMove(pos, price) * pos.qty, 10^4)

\* the number of trades with a positive pnl
RECURSIVE Wins(_)
Wins(trades) ==
    IF trades = << >> THEN 0
    ELSE (IF trades[Len(trades)].pnl > 0 THEN 1 ELSE 0)
         + Wins(SubSeq(trades, 1, Len(trades) - 1))

(* TradingBot, bot.py.  state['positions'] is a dict: positions gives the *)
(* position of a pair, or None when the pair is not a key, and order the  *)
(* keys in the order of their insertion, which is the order a loop over   *)
(* the dict takes.  The alerts and the state file written at the end of   *)
(* a method copy the state and are not modelled; nor are the entry_time   *)
(* and exit_time of a position.                                           *)

\* a sequence without its element x
Without(seq, x) == SelectSeq(seq, LAMBDA y : y # x)

\* a close that books the move of the price without regard to the side
close_position_raw(b, pair, exit_price, reason) ==
    LET pos == b.positions[pair]
        pnl == Pnl(pos, exit_price)
    IN  [ b EXCEPT
            !.positions[pair] = None,
            !.order = Without(b.order, pair),
            !.balance = b.balance
                + RoundDiv((exit_price - pos.entry_price) * pos.qty, 10^4),
            !.trades = Append(b.trades,
                [ entry_price |-> pos.entry_price, qty |-> pos.qty,
                  side |-> pos.side,
                  signal_confidence |-> pos.signal_confidence,
                  exit_price |-> exit_price, pnl |-> pnl,
                  reason |-> reason ]) ]

\* TradingBot.state after _close_position(pair, exit_price, reason),
\* lines 140-167
close_position(b, pair, exit_price, reason) ==
    LET pos == b.positions[pair]
        pnl == Pnl(pos, exit_price)
    IN  [ b EXCEPT
            !.positions[pair] = None,
            !.order = Without(b.order, pair),
            !.balance = b.balance + pnl,
            !.trades = Append(b.trades,
                [ entry_price |-> pos.entry_price, qty |-> pos.qty,
                  side |-> pos.side,
                  signal_confidence |-> pos.signal_confidence,
                  exit_price |-> exit_price, pnl |-> pnl,
                  reason |-> reason ]) ]

\* both thresholds tested strictly
check_exit_strict(b, pair, fetched) ==
    IF pair \notin DOMAIN fetched THEN b
    ELSE LET price == fetched[pair]
             pos == b.positions[pair]
             at_stop == AdjustedMove(pos, price) * 100
                            = -bot_stop_loss_pct * pos.entry_price
             at_target == AdjustedMove(pos, price) * 100
                            = bot_take_profit_pct * pos.entry_price
         IN
         IF HitsStop(pos, price, bot_stop_loss_pct) /\ ~at_stop
         THEN close_position(b, pair, price, "stop_loss")
    ELSE IF HitsTarget(pos, price, bot_take_profit_pct) /\ ~at_target
         THEN close_position(b, pair, price, "take_profit")
    ELSE b

\* one iteration of the loop of check_exits, lines 120-138, for a pair with
\* a position; fetched gives the last close of the pairs for which
\* fetch_candles does not return None
check_exit(b, pair, fetched) ==
    IF pair \notin DOMAIN fetched THEN b
    ELSE LET price == fetched[pair] IN
         IF HitsStop(b.positions[pair], price, bot_stop_loss_pct)
         THEN close_position(b, pair, price, "stop_loss")
    ELSE IF HitsTarget(b.positions[pair], price, bot_take_profit_pct)
         THEN close_position(b, pair, price, "take_profit")
    ELSE b

\* TradingBot.state after check_exits(), lines 118-138: the loop over
\* list(positions.items()) from its k-th element on
RECURSIVE check_exits(_, _, _, _)
check_exits(b, held, k, fetched) ==
    IF k > Len(held) THEN b
    ELSE check_exits(check_exit(b, held[k], fetched), held, k + 1, fetched)

(* TradingBot.execute_signal, bot.py lines 169-211 *)

\* the confidence test with <= in place of <
execute_signal_le(b, pair, s) ==
    IF s.signal \in {"NEUTRAL"} THEN b
    ELSE IF s.confidence <= bot_min_confidence THEN b
    ELSE IF b.positions[pair] # None THEN b
    ELSE [b EXCEPT !.positions[pair] =
              [ entry_price |-> s.price,
                qty |-> Quantity(b.balance, bot_position_size_pct, s.price),
                side |-> SideOf(s),
                signal_confidence |-> s.confidence ],
                   !.order = Append(b.order, pair)]

\* TradingBot.state after execute_signal(pair, s)
execute_signal(b, pair, s) ==
    IF s.signal \in {"NEUTRAL"} THEN b
    ELSE IF s.confidence < bot_min_confidence THEN b
    ELSE IF b.positions[pair] # None THEN b
    ELSE [b EXCEPT !.positions[pair] =
              [ entry_price |-> s.price,
                qty |-> Quantity(b.balance, bot_position_size_pct, s.price),
                side |-> SideOf(s),
                signal_confidence |-> s.confidence ],
                   !.order = Append(b.order, pair)]

(* soda_paper_trader.py: the module-level state dict, with positions and *)
(* order as for the TradingBot                                           *)

\* state after execute_paper_trade(signal_data), lines 118-147
execute_paper_trade(st, d) ==
    IF st.positions[d.symbol] # None THEN st
    ELSE LET qty == Quantity(st.balance, paper_position_size_pct, d.price)
         IN  [ st EXCEPT
                 !.positions[d.symbol] =
                     [ entry_price |-> d.price, qty |-> qty,
                       side |-> IF d.signal = "LONG" THEN "long" ELSE "short" ],
                 !.order = Append(st.order, d.symbol),
                 !.trades = Append(st.trades,
                     [ symbol |-> d.symbol, side |-> d.signal,
                       entry_price |-> d.price, qty |-> qty ]) ]

\* state after close_position(symbol, exit_price, reason), lines 174-184;
\* closed holds the (symbol, reason) of the calls, which the program prints
paper_close_position(st, symbol, exit_price, reason) ==
    [ st EXCEPT
        !.positions[symbol] = None,
        !.order = Without(st.order, symbol),
        !.balance = st.balance + Pnl(st.positions[symbol], exit_price),
        !.closed = Append(st.closed, [symbol |-> symbol, reason |-> reason,
                                      exit_price |-> exit_price]) ]

\* one iteration of the loop of check_exits, lines 153-171
paper_check_exit(st, symbol, fetched) ==
    IF symbol \notin DOMAIN fetched THEN st
    ELSE LET price == fetched[symbol] IN
         IF HitsStop(st.positions[symbol], price, paper_stop_loss_pct)
         THEN paper_close_position(st, symbol, price, "stop_loss")
    ELSE IF HitsTarget(st.positions[symbol], price, paper_take_profit_pct)
         THEN paper_close_position(st, symbol, price, "take_profit")
    ELSE st

\* state after check_exits(), lines 151-171
RECURSIVE paper_check_exits(_, _, _, _)
paper_check_exits(st, held, k, fetched) ==
    IF k > Len(held) THEN st
    ELSE paper_check_exits(paper_check_exit(st, held[k], fetched), held,
                           k + 1, fetched)

(* Backtester.run, backtest.py lines 78-216 *)

\* an entry that does not ask whether a position is open
backtester_step_reenter(b, price, s) ==
    LET pos == b.position
        closes == IF pos = None THEN FALSE
                  ELSE HitsStop(pos, price, stop_loss_pct)
                       \/ HitsTarget(pos, price, take_profit_pct)
        pnl == Pnl(pos, price)
        trade == [ side |-> pos.side, entry_price |-> pos.entry_price,
                   exit_price |-> price, pnl |-> pnl,
                   pnl_pct |-> ScaledDiv(AdjustedMove(pos, price) * 100,
                                         pos.entry_price, 4),
                   reason |-> IF HitsStop(pos, price, stop_loss_pct)
                              THEN "stop_loss" ELSE "take_profit",
                   entry_idx |-> pos.entry_idx, exit_idx |-> b.i ]
        balance1 == IF closes THEN b.balance + pnl ELSE b.balance
        pos1 == IF closes THEN None ELSE pos
        opens == /\ s.signal # "NEUTRAL"
                 /\ s.confidence >= b.min_confidence
    IN  [ b EXCEPT
            !.i = b.i + 1,
            !.current_price = price,
            !.balance = balance1,
            !.trades = IF closes THEN Append(b.trades, trade) ELSE b.trades,
            !.signal = s,
            !.total_signals = b.total_signals + 1,
            !.actionable_signals =
                b.actionable_signals + (IF s.signal # "NEUTRAL" THEN 1 ELSE 0),
            !.position =
                IF opens
                THEN [ side |-> SideOf(s), entry_price |-> price,
                       qty |-> Quantity(balance1, position_size_pct, price),
                       entry_idx |-> b.i,
                       signal_confidence |-> s.confidence ]
                ELSE pos1 ]

\* the locals after one iteration of the loop of lines 100-160, at a bar
\* that closes at price and for which the engine returns s
backtester_step(b, price, s) ==
    LET pos == b.position
        closes == IF pos = None THEN FALSE
                  ELSE HitsStop(pos, price, stop_loss_pct)
                       \/ HitsTarget(pos, price, take_profit_pct)
        pnl == Pnl(pos, price)
        trade == [ side |-> pos.side, entry_price |-> pos.entry_price,
                   exit_price |-> price, pnl |-> pnl,
                   pnl_pct |-> ScaledDiv(AdjustedMove(pos, price) * 100,
                                         pos.entry_price, 4),
                   reason |-> IF HitsStop(pos, price, stop_loss_pct)
                              THEN "stop_loss" ELSE "take_profit",
                   entry_idx |-> pos.entry_idx, exit_idx |-> b.i ]
        balance1 == IF closes THEN b.balance + pnl ELSE b.balance
        pos1 == IF closes THEN None ELSE pos
        opens == /\ pos1 = None
                 /\ s.signal # "NEUTRAL"
                 /\ s.confidence >= b.min_confidence
    IN  [ b EXCEPT
            !.i = b.i + 1,
            !.current_price = price,
            !.balance = balance1,
            !.trades = IF closes THEN Append(b.trades, trade) ELSE b.trades,
            !.signal = s,
            !.total_signals = b.total_signals + 1,
            !.actionable_signals =
                b.actionable_signals + (IF s.signal # "NEUTRAL" THEN 1 ELSE 0),
            !.position =
                IF opens
                THEN [ side |-> SideOf(s), entry_price |-> price,
                       qty |-> Quantity(balance1, position_size_pct, price),
                       entry_idx |-> b.i,
                       signal_confidence |-> s.confidence ]
                ELSE pos1 ]

\* an end of test that records the last trade without booking its pnl
backtester_finish_unbooked(b) ==
    LET pos == b.position
        pnl == Pnl(pos, b.current_price)
        trade == [ side |-> pos.side, entry_price |-> pos.entry_price,
                   exit_price |-> b.current_price, pnl |-> pnl,
                   pnl_pct |-> ScaledDiv((b.current_price - pos.entry_price) * 100,
                                         pos.entry_price, 4),
                   reason |-> "end_of_test",
                   entry_idx |-> pos.entry_idx, exit_idx |-> b.i - 1 ]
        balance1 == b.balance
        trades1 == IF pos # None THEN Append(b.trades, trade) ELSE b.trades
    IN  [ b EXCEPT
            !.pc = "done",
            !.balance = balance1,
            !.trades = trades1,
            !.position = None,
            !.results = [ starting_balance |-> starting_balance,
                          final_balance |-> balance1,
                          total_pnl |-> balance1 - starting_balance,
                          total_trades |-> Len(trades1),
                          wins |-> Wins(trades1),
                          losses |-> Len(trades1) - Wins(trades1),
                          trades |-> trades1,
                          total_signals |-> b.total_signals,
                          actionable_signals |-> b.actionable_signals ] ]

\* the locals after lines 162-216: the remaining position is closed at the
\* last close, the statistics are computed
backtester_finish(b) ==
    LET pos == b.position
        pnl == Pnl(pos, b.current_price)
        trade == [ side |-> pos.side, entry_price |-> pos.entry_price,
                   exit_price |-> b.current_price, pnl |-> pnl,
                   pnl_pct |-> ScaledDiv((b.current_price - pos.entry_price) * 100,
                                         pos.entry_price, 4),
                   reason |-> "end_of_test",
                   entry_idx |-> pos.entry_idx, exit_idx |-> b.i - 1 ]
        balance1 == IF pos # None THEN b.balance + pnl ELSE b.balance
        trades1 == IF pos # None THEN Append(b.trades, trade) ELSE b.trades
    IN  [ b EXCEPT
            !.pc = "done",
            !.balance = balance1,
            !.trades = trades1,
            !.position = None,
            !.results = [ starting_balance |-> starting_balance,
                          final_balance |-> balance1,
                          total_pnl |-> balance1 - starting_balance,
                          total_trades |-> Len(trades1),
                          wins |-> Wins(trades1),
                          losses |-> Len(trades1) - Wins(trades1),
                          trades |-> trades1,
                          total_signals |-> b.total_signals,
                          actionable_signals |-> b.actionable_signals ] ]

(* run_single_backtest, optimize.py lines 51-124.  The locals carry the *)
(* parameters stop_loss_pct, take_profit_pct and min_confidence.          *)

\* the locals at line 67, before the first bar
single_start(sl, tp, conf) ==
    [ pc |-> "loop", i |-> lookback, current_price |-> 0,
      stop_loss_pct |-> sl, take_profit_pct |-> tp, min_confidence |-> conf,
      balance |-> starting_balance, position |-> None, trades |-> << >>,
      signal |-> None, results |-> None ]

\* an entry only on a bar that began without position
single_step_next_bar(b, price, s) ==
    LET pos == b.position
        closes == IF pos = None THEN FALSE
                  ELSE HitsStop(pos, price, b.stop_loss_pct)
                       \/ HitsTarget(pos, price, b.take_profit_pct)
        pnl == Pnl(pos, price)
        trade == [ pnl |-> pnl,
                   reason |-> IF HitsStop(pos, price, b.stop_loss_pct)
                              THEN "sl" ELSE "tp" ]
        balance1 == IF closes THEN b.balance + pnl ELSE b.balance
        pos1 == IF closes THEN None ELSE pos
        opens == /\ pos = None
                 /\ s.signal # "NEUTRAL"
                 /\ s.confidence >= b.min_confidence
    IN  [ b EXCEPT
            !.i = b.i + 1,
            !.current_price = price,
            !.balance = balance1,
            !.trades = IF closes THEN Append(b.trades, trade) ELSE b.trades,
            !.signal = IF pos1 = None THEN s ELSE b.signal,
            !.position =
                IF opens
                THEN [ side |-> SideOf(s), entry_price |-> price,
                       qty |-> Quantity(balance1, position_size_pct, price) ]
                ELSE pos1 ]

\* the locals after one iteration of the loop of lines 67-102; the engine
\* is asked (and would return s) only when no position is open
single_step(b, price, s) ==
    LET pos == b.position
        closes == IF pos = None THEN FALSE
                  ELSE HitsStop(pos, price, b.stop_loss_pct)
                       \/ HitsTarget(pos, price, b.take_profit_pct)
        pnl == Pnl(pos, price)
        trade == [ pnl |-> pnl,
                   reason |-> IF HitsStop(pos, price, b.stop_loss_pct)
                              THEN "sl" ELSE "tp" ]
        balance1 == IF closes THEN b.balance + pnl ELSE b.balance
        pos1 == IF closes THEN None ELSE pos
        opens == /\ pos1 = None
                 /\ s.signal # "NEUTRAL"
                 /\ s.confidence >= b.min_confidence
    IN  [ b EXCEPT
            !.i = b.i + 1,
            !.current_price = price,
            !.balance = balance1,
            !.trades = IF closes THEN Append(b.trades, trade) ELSE b.trades,
            !.signal = IF pos1 = None THEN s ELSE b.signal,
            !.position =
                IF opens
                THEN [ side |-> SideOf(s), entry_price |-> price,
                       qty |-> Quantity(balance1, position_size_pct, price) ]
                ELSE pos1 ]

\* the locals after lines 104-124
single_finish(b) ==
    LET pos == b.position
        pnl == Pnl(pos, b.current_price)
        balance1 == IF pos # None THEN b.balance + pnl ELSE b.balance
        trades1 == IF pos # None
                   THEN Append(b.trades, [pnl |-> pnl, reason |-> "end"])
                   ELSE b.trades
    IN  [ b EXCEPT
            !.pc = "done",
            !.balance = balance1,
            !.trades = trades1,
            !.position = None,
            !.results = [ pnl |-> balance1 - starting_balance,
                          trades |-> Len(trades1),
                          wins |-> Wins(trades1),
                          final_balance |-> balance1 ] ]

\* the loop over the bars from index lookback on: bars[k] is the close of
\* bar lookback + k - 1 and feed[k] what the engine returns for its window
RECURSIVE RunBars(_, _, _, _)
RunBars(b, bars, feed, k) ==
    IF k > Len(bars) THEN b
    ELSE RunBars(single_step(b, bars[k], feed[k]), bars, feed, k + 1)

\* the dict run_single_backtest returns
run_single_backtest(bars, feed, sl, tp, conf) ==
    single_finish(RunBars(single_start(sl, tp, conf), bars, feed, 1)).results

(* optimize, optimize.py lines 127-203 *)

\* combinations[idx] of itertools.product(sl_values, tp_values, conf_values),
\* idx from 0
Combination(o, idx) ==
    LET nt == Len(o.tp_values)
        nc == Len(o.conf_values)
    IN  [ sl |-> o.sl_values[(idx \div (nt * nc)) + 1],
          tp |-> o.tp_values[((idx \div nc) % nt) + 1],
          conf |-> o.conf_values[(idx % nc) + 1] ]

Total(o) == Len(o.sl_values) * Len(o.tp_values) * Len(o.conf_values)

\* the sum of f[x] over x in S
RECURSIVE SumOver(_, _)
SumOver(S, f) ==
    IF S = {} THEN 0
    ELSE LET x == CHOOSE y \in S : TRUE
         IN  f[x] + SumOver(S \ {x}, f)

\* runs every combination, those with tp <= sl included
optimize_step_noskip(o) ==
    LET c == Combination(o, o.idx)
        fetched == DOMAIN o.pair_candles
        r == [pr \in fetched |->
                 run_single_backtest(o.pair_candles[pr].bars,
                                     o.pair_candles[pr].feed,
                                     c.sl, c.tp, c.conf)]
        total_pnl == SumOver(fetched, [pr \in fetched |-> r[pr].pnl])
        total_trades == SumOver(fetched, [pr \in fetched |-> r[pr].trades])
        total_wins == SumOver(fetched, [pr \in fetched |-> r[pr].wins])
    IN  [ o EXCEPT
               !.idx = o.idx + 1,
               !.backtests = o.backtests + Cardinality(fetched),
               !.results = Append(o.results,
                   [ params |-> c,
                     result |-> [ pnl |-> total_pnl,
                                  trades |-> total_trades,
                                  wins |-> total_wins ] ]) ]

\* the locals after one iteration of the loop of lines 162-198
optimize_step(o) ==
    LET c == Combination(o, o.idx)
        fetched == DOMAIN o.pair_candles
        r == [pr \in fetched |->
                 run_single_backtest(o.pair_candles[pr].bars,
                                     o.pair_candles[pr].feed,
                                     c.sl, c.tp, c.conf)]
        total_pnl == SumOver(fetched, [pr \in fetched |-> r[pr].pnl])
        total_trades == SumOver(fetched, [pr \in fetched |-> r[pr].trades])
        total_wins == SumOver(fetched, [pr \in fetched |-> r[pr].wins])
    IN  IF c.tp <= c.sl THEN [o EXCEPT !.idx = o.idx + 1]
        ELSE [ o EXCEPT
               !.idx = o.idx + 1,
               !.backtests = o.backtests + Cardinality(fetched),
               !.results = Append(o.results,
                   [ params |-> c,
                     result |-> [ pnl |-> total_pnl,
                                  trades |-> total_trades,
                                  wins |-> total_wins ] ]) ]

\* results.sort(key=lambda x: x[1]['pnl'], reverse=True): the stable sort
\* by decreasing pnl, here by insertion
RECURSIVE InsertByPnl(_, _, _)
InsertByPnl(sorted, e, k) ==
    IF k > Len(sorted) \/ sorted[k].result.pnl < e.result.pnl
    THEN SubSeq(sorted, 1, k - 1) \o <<e>> \o SubSeq(sorted, k, Len(sorted))
    ELSE InsertByPnl(sorted, e, k + 1)

RECURSIVE SortByPnl(_, _, _)
SortByPnl(results, k, sorted) ==
    IF k > Len(results) THEN sorted
    ELSE SortByPnl(results, k + 1, InsertByPnl(sorted, results[k], 1))

(* The alert formatters: DiscordAlerts._format_signal and send_signal,     *)
(* alerts/discord_alerts.py, and format_signal_log, regime_detector_v2.py.  *)
(* A dict is a function from its keys; a formatted string is the record of  *)
(* its format and of the value shown.  Amounts of money are in units of     *)
(* 10^-4, and ":,.2f" shows them in cents.                                  *)

\* dict.get(key, default)
get(d, key, default) == IF key \in DOMAIN d THEN d[key] ELSE default

\* str.upper() on the sides that occur
upper(x) ==
    CASE x \in {"long", "LONG"} -> "LONG"
      [] x \in {"short", "SHORT"} -> "SHORT"
      [] x \in {"buy", "BUY"} -> "BUY"
      [] x \in {"sell", "SELL"} -> "SELL"
      [] x = "" -> ""
      [] OTHER -> "SIGNAL"

\* f"${x:,.2f}"
Money(x) == [fmt |-> "$,.2f", value |-> RoundDiv(x, 100)]
\* f"{x}"
Str(x) == [fmt |-> "", value |-> x]
\* f"{x}%"
Percent(x) == [fmt |-> "%", value |-> x]

OptionalField(sig, key, name) ==
    IF key \in DOMAIN sig
    THEN << [ name |-> name,
              value |-> IF key = "confidence" THEN Percent(sig[key])
                        ELSE Money(sig[key]),
              inline |-> TRUE ] >>
    ELSE << >>

\* the embed of _format_signal for a dict sig, whose side is upper-cased
\* to side
Embed(sig, side) ==
    [ title |-> [ is_long |-> side \in {"LONG", "BUY"},
                  side |-> IF "side" \in DOMAIN sig THEN side ELSE "SIGNAL",
                  symbol |-> get(sig, "symbol", "UNKNOWN") ],
      fields |->
          << [ name |-> "Price", value |-> Money(get(sig, "price", 0)),
               inline |-> TRUE ],
             [ name |-> "RSI", value |-> Str(get(sig, "rsi", "N/A")),
               inline |-> TRUE ],
             [ name |-> "Strategy",
               value |-> Str(get(sig, "strategy", "Mean Reversion")),
               inline |-> TRUE ] >>
          \o OptionalField(sig, "stop_loss", "Stop Loss")
          \o OptionalField(sig, "take_profit", "Take Profit")
          \o OptionalField(sig, "confidence", "Confidence") ]

\* a formatter that fills in a default confidence in its argument
format_signal_setdefault(sig) ==
    LET filled == [k \in DOMAIN sig \cup {"confidence"} |->
                      IF k \in DOMAIN sig THEN sig[k] ELSE 0]
    IN  [ embed |-> Embed(filled, upper(get(filled, "side", ""))),
          signal |-> filled ]

\* _format_signal(signal), lines 27-81: the embed returned, and the dict
\* the caller passed as it is after the call
format_signal(sig) ==
    [ embed |-> Embed(sig, upper(get(sig, "side", ""))),
      signal |-> sig ]

\* the keys format_signal_log reads
LogKeys ==
    {"action", "regime", "strategy", "confidence", "position_size",
     "reasoning"}

\* format_signal_log(signal, symbol), regime_detector_v2.py lines 374-381:
\* the string returned (KeyError when a key is missing), and the dict the
\* caller passed as it is after the call
format_signal_log(sig, symbol) ==
    [ out |-> IF LogKeys \subseteq DOMAIN sig
              THEN [ symbol |-> symbol,
                     shown |-> [k \in LogKeys |-> Str(sig[k])] ]
              ELSE [raised |-> "KeyError"],
      signal |-> sig ]

\* the DiscordAlerts object a after send_signal(sig), lines 83-125, when the
\* webhook answers with response (a status code, or "exception"); result
\* is what the call returns
send_signal(a, sig, response) ==
    LET f == format_signal(sig)
        entry == [k \in DOMAIN f.signal \cup {"sent_at", "status"} |->
                     IF k = "sent_at" THEN "now"
                     ELSE IF k = "status" THEN "sent"
                     ELSE f.signal[k]]
    IN  IF ~a.webhook_url
        THEN [a EXCEPT !.pc = "sent", !.result = FALSE, !.embed = None]
        ELSE [ a EXCEPT
                 !.pc = "sent",
                 !.signal = f.signal,
                 !.embed = f.embed,
                 !.result = response \in {"200", "204"},
                 !.history = IF response \in {"200", "204"}
                             THEN Append(a.history, entry)
                             ELSE a.history ]

-----------------------------------------------------------------------------
(* Bounds and sampled inputs *)

\* how far around each threshold the sampled inputs reach, in units of the
\* sampled quantity's resolution
Spread == 1

Near(t) == (t - Spread)..(t + Spread)

Regimes == {"BEAR_TREND", "BULL_TREND", "RANGING", "NEUTRAL"}
Strategies == {"RSI_MOMENTUM", "MEAN_REVERSION"}
Actions == {"BUY", "SELL", "HOLD"}

\* Locals of analyze_market_v2 at line 259, unrounded.  The fields the
\* classifier and the sizing read vary; the others are those of a quiet
\* market at price 100.
IndSamples ==
    { [ price |-> p, sma_50 |-> 100 * FP, ema_20 |-> 100 * FP, ema_200 |-> 100 * FP,
        rsi_7 |-> 50 * FP, rsi_14 |-> 50 * FP, adx |-> a,
        macd |-> 0, macd_signal |-> 0, macd_histogram |-> 0,
        atr_14 |-> (ap * (p \div FP)) \div 100, atr_percent |-> ap,
        vol |-> vr * 10, vol_sma |-> 10 * FP, vol_ratio |-> vr ] :
      p \in Near(100 * FP),
      a \in Near(adx_range_threshold) \cup Near(adx_trend_threshold)
            \cup {0, 30 * FP},
      ap \in Near(2 * FP) \cup Near(5 * FP) \cup {0, 3 * FP + FP \div 2},
      vr \in Near(FP \div 2) \cup Near(FP + FP \div 2) \cup {FP} }

\* MarketStates handed to generate_signal.  generate_signal accepts any
\* MarketState, so regime and strategy vary independently.
StateSamples ==
    { [ price |-> p, sma_50 |-> 100 * Dec2, ema_20 |-> 100 * Dec2,
        ema_200 |-> 100 * Dec2,
        rsi_7 |-> r7, rsi_14 |-> r14, adx |-> 22 * Dec2,
        macd |-> 10 * mh, macd_signal |-> 9 * mh, macd_histogram |-> mh,
        atr_14 |-> 3 * Dec2, atr_percent |-> 3 * Dec2,
        volume |-> vr * 10, volume_sma |-> 10 * Dec2, volume_ratio |-> vr,
        regime |-> rg, strategy |-> st,
        position_size_multiplier |-> Dec2 ] :
      p \in Near(100 * Dec2),
      r7 \in Near(30 * Dec2) \cup Near(70 * Dec2) \cup {25 * Dec2},
      r14 \in Near(40 * Dec2) \cup Near(50 * Dec2) \cup Near(60 * Dec2)
              \cup {35 * Dec2},
      mh \in -Spread..Spread,
      vr \in Near((15 * Dec2) \div 10) \cup {Dec2},
      rg \in Regimes, st \in Strategies }

\* how many bars past the lookback a backtest iterates over
MaxBars == 3

Pairs == {"BTC", "ETH"}

\* closes around an entry at 100.00: the stop-loss and take-profit
\* boundaries of the defaults (3 % and 5 %) and a close between them
Prices == {97 * Dec2, 100 * Dec2, 105 * Dec2}

\* CompositeSignals of the engine, without their price
EngineSignals ==
    { [signal |-> t, confidence |-> c] :
        t \in SignalTypes,
        c \in {min_confidence - 1, min_confidence, min_confidence + 1} }

\* CompositeSignals as execute_signal receives them, at price 100.00
BotSignals ==
    { [signal |-> e.signal, confidence |-> e.confidence, price |-> 100 * Dec2] :
        e \in EngineSignals }

\* how many positions the bot and the paper trader open
MaxTrades == 2

\* the last closes check_exits sees: for an entry at 100.00, the
\* boundaries of the stop-loss and the take-profit of the bot and the paper
\* trader (5 % both) and a close between them
ExitPrices == {95 * Dec2, 100 * Dec2, 105 * Dec2}

\* what fetch_candles gives check_exits: the last close of each pair for
\* which it does not return None
Fetches == UNION { [ok -> ExitPrices] : ok \in SUBSET Pairs }

\* the signal_data of check_signals that run_bot hands to
\* execute_paper_trade (those with a signal)
PaperSignals ==
    { [symbol |-> sy, price |-> 100 * Dec2, signal |-> sg] :
        sy \in Pairs, sg \in {"LONG", "SHORT"} }

\* the min_confidence a backtest is run with: the default and one above, so
\* that the sampled confidences fall on both sides of either
MinConfidences == {min_confidence, min_confidence + 1}

\* the value lists optimize is called with: those of the quick mode of
\* main (lines 238-240, in percent), and shorter ones in another order
SlLists == { <<3, 5, 7>>, <<5, 3>>, << >> }
TpLists == { <<5, 8, 12>>, <<3, 5>> }
ConfLists == { <<65, 70, 75>>, <<65>> }

\* what fetch_candles returns for a pair: the closes from bar lookback on
\* and what the engine returns at each of them
Scenarios ==
    { [ bars |-> <<100 * Dec2, 105 * Dec2, 97 * Dec2>>,
        feed |-> << [signal |-> "LONG", confidence |-> 70],
                    [signal |-> "NEUTRAL", confidence |-> 50],
                    [signal |-> "SHORT", confidence |-> 65] >> ],
      [ bars |-> <<100 * Dec2, 97 * Dec2, 105 * Dec2>>,
        feed |-> << [signal |-> "STRONG_SHORT", confidence |-> 75],
                    [signal |-> "LONG", confidence |-> 64],
                    [signal |-> "STRONG_LONG", confidence |-> 90] >> ],
      [ bars |-> << >>, feed |-> << >> ] }

\* how many alerts the history of a DiscordAlerts object takes
MaxHistory == 2

\* the keys of the dict of an alert and a value for each (the test signal
\* of discord_alerts.py, lines 213-222, at smaller prices)
AlertKeys ==
    {"symbol", "side", "price", "rsi", "strategy", "stop_loss",
     "take_profit", "confidence"}

AlertValue(k, side) ==
    CASE k = "symbol" -> "BTC/USD"
      [] k = "side" -> side
      [] k = "price" -> 1001234
      [] k = "rsi" -> 2850
      [] k = "strategy" -> "RSI Mean Reversion"
      [] k = "stop_loss" -> 951172
      [] k = "take_profit" -> 1051296
      [] k = "confidence" -> 75

\* the dicts handed to the formatters: any choice of the alert's keys, and
\* the dict of generate_signal that format_signal_log is written for
AlertSignals ==
    { [k \in keys |-> AlertValue(k, side)] :
        keys \in SUBSET AlertKeys, side \in {"LONG", "short"} }
    \cup
    { [ action |-> "BUY", regime |-> "RANGING",
        strategy |-> "MEAN_REVERSION", confidence |-> c,
        position_size |-> 100, reasoning |-> "RSI oversold" ] :
        c \in {60, 75} }

WebhookResponses == {"200", "204", "500", "exception"}

-----------------------------------------------------------------------------
(* Actions *)

\* a direct call detect_regime(adx, price, sma_50)
DetectRegime ==
    /\ pc = "indicators"
    /\ classified = NoResult
    /\ classified' = detect_regime(ind.adx, ind.price, ind.sma_50)
    /\ UNCHANGED <<high, low, close, volume, ind, state, signal, analysis, rsi, pc>>
    /\ UNCHANGED trade_vars

\* the v1 detect_regime from line 123 on and get_strategy, for the adx,
\* price and sma in ind
DetectRegimeV1 ==
    /\ pc = "indicators"
    /\ analysis = NoAnalysis
    /\ LET r == detect_regime_v1(ind.adx, ind.price, ind.sma_50)
       IN  analysis' = [ regime |-> r[1], strategy |-> get_strategy(r[1]),
                         is_trending |-> r[2], is_below_sma |-> r[3] ]
    /\ UNCHANGED <<high, low, close, volume, ind, classified, state, signal,
                   rsi, pc>>
    /\ UNCHANGED trade_vars

\* analyze_market_v2 from line 260 on, for the locals in ind
Classify ==
    /\ pc = "indicators"
    /\ \E s \in MarketStates(ind) : state' = s
    /\ pc' = "analyzed"
    /\ UNCHANGED <<high, low, close, volume, ind, classified, signal, analysis, rsi>>
    /\ UNCHANGED trade_vars

\* signal = generate_signal(state)
GenerateSignal ==
    /\ pc = "analyzed"
    /\ signal' = generate_signal(state)
    /\ pc' = "signalled"
    /\ UNCHANGED <<high, low, close, volume, ind, classified, state, analysis, rsi>>
    /\ UNCHANGED trade_vars

\* state = analyze_market_v2(high, low, close, volume)
AnalyzeMarketV2 ==
    /\ pc = "window"
    /\ IF Len(close) = 0
       THEN /\ pc' = "raised"
            /\ UNCHANGED <<ind, state>>
       ELSE /\ ind' = Indicators(high, low, close, volume)
            /\ \E s \in MarketStates(ind') : state' = s
            /\ pc' = "analyzed"
    /\ UNCHANGED <<high, low, close, volume, classified, signal, analysis, rsi>>
    /\ UNCHANGED trade_vars

\* analysis = analyze_market(high, low, close), the v1 detector
AnalyzeMarket ==
    /\ pc = "window"
    /\ analysis = NoAnalysis
    /\ IF Len(close) = 0
       THEN analysis' = IndexError
       ELSE \E a \in analyze_market(high, low, close) : analysis' = a
    /\ UNCHANGED <<high, low, close, volume, ind, classified, state, signal, rsi, pc>>
    /\ UNCHANGED trade_vars

\* rsi = calculate_rsi(closes, CONFIG['rsi_period']), soda_paper_trader.py
SodaCalculateRsi ==
    /\ pc = "window"
    /\ rsi = NoRsi
    /\ rsi' = soda_calculate_rsi(close, rsi_period)
    /\ UNCHANGED <<high, low, close, volume, ind, classified, state, signal,
                   analysis, pc>>
    /\ UNCHANGED trade_vars

\* TradingBot.execute_signal(pair, signal), bot.py lines 169-211
ExecuteSignal ==
    /\ prog = "bot"
    /\ Len(bot.trades) + Len(bot.order) < MaxTrades
    /\ \E pair \in Pairs, s \in BotSignals :
           /\ bot' = execute_signal(bot, pair, s)
           /\ call' = [pair |-> pair, signal |-> s]
    /\ UNCHANGED <<prog, bt, sb, opt, alerter, paper>>
    /\ UNCHANGED engine_vars

\* TradingBot.check_exits(), bot.py lines 118-138, with the
\* _close_position calls it makes
CheckExits ==
    /\ prog = "bot"
    /\ \E fetched \in Fetches :
           /\ bot' = check_exits(bot, bot.order, 1, fetched)
           /\ call' = [fetched |-> fetched]
    /\ UNCHANGED <<prog, bt, sb, opt, alerter, paper>>
    /\ UNCHANGED engine_vars

\* execute_paper_trade(signal_data), soda_paper_trader.py lines 118-147
ExecutePaperTrade ==
    /\ prog = "paper"
    /\ Len(paper.trades) < MaxTrades
    /\ \E d \in PaperSignals :
           paper' = [execute_paper_trade(paper, d) EXCEPT !.fetched = None]
    /\ UNCHANGED <<prog, bot, call, bt, sb, opt, alerter>>
    /\ UNCHANGED engine_vars

\* check_exits(), soda_paper_trader.py lines 151-171, with the
\* close_position calls it makes
PaperCheckExits ==
    /\ prog = "paper"
    /\ \E fetched \in Fetches :
           paper' = [paper_check_exits(paper, paper.order, 1, fetched)
                         EXCEPT !.fetched = fetched]
    /\ UNCHANGED <<prog, bot, call, bt, sb, opt, alerter>>
    /\ UNCHANGED engine_vars

\* Backtester.run up to its loop, backtest.py lines 90-97: candles[0, 0]
\* raises IndexError on an empty array
BacktesterStart ==
    /\ prog = "backtest"
    /\ bt.pc = "start"
    /\ \E empty \in BOOLEAN :
           bt' = IF empty THEN [bt EXCEPT !.pc = "raised"]
                 ELSE [bt EXCEPT !.pc = "loop"]
    /\ UNCHANGED <<prog, bot, call, sb, opt, alerter, paper>>
    /\ UNCHANGED engine_vars

\* one iteration of the loop of Backtester.run, backtest.py lines 100-160
BacktesterStep ==
    /\ prog = "backtest"
    /\ bt.pc = "loop"
    /\ bt.i < lookback + MaxBars
    /\ \E price \in Prices, s \in EngineSignals :
           bt' = backtester_step(bt, price, s)
    /\ UNCHANGED <<prog, bot, call, sb, opt, alerter, paper>>
    /\ UNCHANGED engine_vars

\* the end of Backtester.run, backtest.py lines 162-216
BacktesterFinish ==
    /\ prog = "backtest"
    /\ bt.pc = "loop"
    /\ bt' = backtester_finish(bt)
    /\ UNCHANGED <<prog, bot, call, sb, opt, alerter, paper>>
    /\ UNCHANGED engine_vars

\* one iteration of the loop of run_single_backtest, optimize.py lines 67-102
SingleBacktestStep ==
    /\ prog = "single_backtest"
    /\ sb.pc = "loop"
    /\ sb.i < lookback + MaxBars
    /\ \E price \in Prices, s \in EngineSignals :
           sb' = single_step(sb, price, s)
    /\ UNCHANGED <<prog, bot, call, bt, opt, alerter, paper>>
    /\ UNCHANGED engine_vars

\* the end of run_single_backtest, optimize.py lines 104-124
SingleBacktestFinish ==
    /\ prog = "single_backtest"
    /\ sb.pc = "loop"
    /\ sb' = single_finish(sb)
    /\ UNCHANGED <<prog, bot, call, bt, opt, alerter, paper>>
    /\ UNCHANGED engine_vars

\* Backtester.run and run_single_backtest called with the same candles and
\* the same engine: one bar of each, at the same close, their engines
\* returning the same signal for the bar's window
CompareStep ==
    /\ prog = "compare"
    /\ bt.pc = "loop"
    /\ bt.i < lookback + MaxBars
    /\ \E price \in Prices, s \in EngineSignals :
           /\ bt' = backtester_step(bt, price, s)
           /\ sb' = single_step(sb, price, s)
    /\ UNCHANGED <<prog, bot, call, opt, alerter, paper>>
    /\ UNCHANGED engine_vars

\* the end of both
CompareFinish ==
    /\ prog = "compare"
    /\ bt.pc = "loop"
    /\ bt' = backtester_finish(bt)
    /\ sb' = single_finish(sb)
    /\ UNCHANGED <<prog, bot, call, opt, alerter, paper>>
    /\ UNCHANGED engine_vars

\* optimize up to its loop, optimize.py lines 142-160: the pairs for which
\* fetch_candles returns data, and the early return when there are none
OptimizeFetch ==
    /\ prog = "optimize"
    /\ opt.pc = "fetch"
    /\ \E fetched \in SUBSET Pairs :
       \E data \in [fetched -> Scenarios] :
           opt' = IF fetched = {}
                  THEN [opt EXCEPT !.pc = "done"]
                  ELSE [opt EXCEPT !.pc = "loop", !.pair_candles = data]
    /\ UNCHANGED <<prog, bot, call, bt, sb, alerter, paper>>
    /\ UNCHANGED engine_vars

\* one iteration of the loop of optimize, optimize.py lines 162-198
OptimizeCombination ==
    /\ prog = "optimize"
    /\ opt.pc = "loop"
    /\ opt.idx < Total(opt)
    /\ opt' = optimize_step(opt)
    /\ UNCHANGED <<prog, bot, call, bt, sb, alerter, paper>>
    /\ UNCHANGED engine_vars

\* the end of optimize, optimize.py lines 200-203
OptimizeSort ==
    /\ prog = "optimize"
    /\ opt.pc = "loop"
    /\ opt.idx = Total(opt)
    /\ opt' = [opt EXCEPT !.pc = "done",
                          !.results = SortByPnl(opt.results, 1, << >>)]
    /\ UNCHANGED <<prog, bot, call, bt, sb, alerter, paper>>
    /\ UNCHANGED engine_vars

\* a call of DiscordAlerts._format_signal(signal)
FormatSignal ==
    /\ prog = "alerts"
    /\ LET f == format_signal(alerter.signal)
       IN  alerter' = [alerter EXCEPT !.pc = "formatted",
                                      !.signal = f.signal,
                                      !.embed = f.embed]
    /\ UNCHANGED <<prog, bot, call, bt, sb, opt, paper>>
    /\ UNCHANGED engine_vars

\* a call of DiscordAlerts.send_signal(signal)
SendSignal ==
    /\ prog = "alerts"
    /\ Len(alerter.history) < MaxHistory
    /\ \E response \in WebhookResponses :
           alerter' = send_signal(alerter, alerter.signal, response)
    /\ UNCHANGED <<prog, bot, call, bt, sb, opt, paper>>
    /\ UNCHANGED engine_vars

\* a call of format_signal_log(signal, symbol)
FormatSignalLog ==
    /\ prog = "alerts"
    /\ LET f == format_signal_log(alerter.signal, "BTC/USD")
       IN  alerter' = [alerter EXCEPT !.pc = "logged",
                                      !.signal = f.signal,
                                      !.log = f.out]
    /\ UNCHANGED <<prog, bot, call, bt, sb, opt, paper>>
    /\ UNCHANGED engine_vars

-----------------------------------------------------------------------------
(* The pipeline on candle windows *)

\* the largest per-bar drift of the close, in quarters
MaxDrift == 2
\* the largest zigzag of the close around its drift, in quarters
MaxSwing == 2
\* the largest distance of high and low from the close, in units of 1.5
MaxRange == 2
\* the largest volume of the last bar, in halves of the volume before it
MaxLastVolume == 4

\* the lookbacks of the indicators, one bar around them, and the 60-bar
\* scenario
WindowLengths == {0, 1, 8, 14, 15, 16, 35, 50, 60}

Zig(i) == IF i % 2 = 0 THEN 1 ELSE -1

\* the close of bar i: 100, drifting by d quarters a bar, zigzagging by sw
\* quarters around the drift
ClosePrice(d, sw, i) ==
    100 * Dec2 + d * (Dec2 \div 4) * (i - 1) + sw * (Dec2 \div 4) * Zig(i)

WindowClose(n, d, sw) == [i \in 1..n |-> ClosePrice(d, sw, i)]

\* no trading program runs
TradeIdle ==
    /\ prog = "none"
    /\ bot = Idle /\ call = NoCall /\ bt = Idle /\ sb = Idle /\ opt = Idle
    /\ alerter = Idle /\ paper = Idle

\* the largest move of the one bar that moves in a quiet window, in cents
MaxBump == 1

\* a trending or zigzagging window with a range around the close and a
\* last bar of low or high volume
DriftWindow ==
    \E n \in WindowLengths, d \in -MaxDrift..MaxDrift, sw \in 0..MaxSwing,
       rg \in 0..MaxRange, vk \in 0..MaxLastVolume :
       /\ close = WindowClose(n, d, sw)
       /\ high = [i \in 1..n |-> ClosePrice(d, sw, i) + rg * ((3 * Dec2) \div 2)]
       /\ low = [i \in 1..n |-> ClosePrice(d, sw, i) - rg * ((3 * Dec2) \div 2)]
       /\ volume = [i \in 1..n |-> IF i = n THEN vk * 5 * Dec2 ELSE 10 * Dec2]

\* a quiet window: every bar at 100 but bar b, which closes k cents away
QuietWindow ==
    \E n \in {m \in WindowLengths : m >= slow + signal_period},
       k \in -MaxBump..MaxBump :
       \E b \in 1..n :
          /\ close = [i \in 1..n |-> IF i = b THEN 100 * Dec2 + k ELSE 100 * Dec2]
          /\ high = close
          /\ low = close
          /\ volume = [i \in 1..n |-> 10 * Dec2]

Init ==
    /\ DriftWindow \/ QuietWindow
    /\ ind = NoInd
    /\ classified = NoResult
    /\ state = NoState
    /\ signal = NoSignal
    /\ analysis = NoAnalysis
    /\ rsi = NoRsi
    /\ pc = "window"
    /\ TradeIdle

Next == AnalyzeMarketV2 \/ AnalyzeMarket \/ GenerateSignal

Spec == Init /\ [][Next]_vars

\* the paper trader's RSI on the same windows
NextSoda == SodaCalculateRsi

SpecSoda == Init /\ [][NextSoda]_vars

-----------------------------------------------------------------------------
(* The classifier and the sizing on sampled indicator values *)

InitClassify ==
    /\ high = << >> /\ low = << >> /\ close = << >> /\ volume = << >>
    /\ ind \in IndSamples
    /\ classified = NoResult
    /\ state = NoState
    /\ signal = NoSignal
    /\ analysis = NoAnalysis
    /\ rsi = NoRsi
    /\ pc = "indicators"
    /\ TradeIdle

NextClassify == DetectRegime \/ DetectRegimeV1 \/ Classify

SpecClassify == InitClassify /\ [][NextClassify]_vars

\* analyze_market_v2 from sampled indicator values on, then generate_signal
NextAnalyze == Classify \/ GenerateSignal

SpecAnalyze == InitClassify /\ [][NextAnalyze]_vars

(* generate_signal on sampled MarketStates *)

InitSignal ==
    /\ high = << >> /\ low = << >> /\ close = << >> /\ volume = << >>
    /\ ind = NoInd
    /\ classified = NoResult
    /\ state \in StateSamples
    /\ signal = NoSignal
    /\ analysis = NoAnalysis
    /\ rsi = NoRsi
    /\ pc = "analyzed"
    /\ TradeIdle

NextSignal == GenerateSignal

SpecSignal == InitSignal /\ [][NextSignal]_vars

(* The trading programs: one of the bot, Backtester.run,             *)
(* run_single_backtest and optimize, on sampled prices and signals    *)

EngineIdle ==
    /\ high = << >> /\ low = << >> /\ close = << >> /\ volume = << >>
    /\ ind = NoInd
    /\ classified = NoResult
    /\ state = NoState
    /\ signal = NoSignal
    /\ analysis = NoAnalysis
    /\ rsi = NoRsi
    /\ pc = "idle"

\* TradingBot.state as _load_state creates it, bot.py lines 66-76
InitBot ==
    /\ prog = "bot"
    /\ bot = [ balance |-> starting_balance,
               positions |-> [pr \in Pairs |-> None],
               order |-> << >>,
               trades |-> << >> ]
    /\ call = NoCall
    /\ bt = Idle /\ sb = Idle /\ opt = Idle /\ paper = Idle

\* the state dict of soda_paper_trader at import, lines 33-38; fetched is
\* what the latest check_exits was given
InitPaper ==
    /\ prog = "paper"
    /\ paper = [ balance |-> starting_balance,
                 positions |-> [pr \in Pairs |-> None],
                 order |-> << >>,
                 trades |-> << >>,
                 closed |-> << >>,
                 fetched |-> None ]
    /\ bot = Idle /\ call = NoCall /\ bt = Idle /\ sb = Idle /\ opt = Idle

\* Backtester.run on a Backtester with the defaults of __init__, but for
\* min_confidence
InitBacktest ==
    /\ prog = "backtest"
    /\ \E conf \in MinConfidences :
           bt = [ pc |-> "start", i |-> lookback, current_price |-> 0,
                  min_confidence |-> conf,
                  balance |-> starting_balance, position |-> None,
                  trades |-> << >>, signal |-> None,
                  total_signals |-> 0, actionable_signals |-> 0,
                  results |-> None ]
    /\ bot = Idle /\ call = NoCall /\ sb = Idle /\ opt = Idle /\ paper = Idle

\* both backtests at their first bar, with the defaults of Backtester for
\* stop-loss, take-profit, position size and starting balance (which are
\* the defaults of run_single_backtest for the last two), the same
\* min_confidence, and candles longer than the lookback, as main of
\* backtest.py asks (line 273)
InitCompare ==
    /\ prog = "compare"
    /\ \E conf \in MinConfidences :
           /\ bt = [ pc |-> "loop", i |-> lookback, current_price |-> 0,
                     min_confidence |-> conf,
                     balance |-> starting_balance, position |-> None,
                     trades |-> << >>, signal |-> None,
                     total_signals |-> 0, actionable_signals |-> 0,
                     results |-> None ]
           /\ sb = single_start(stop_loss_pct, take_profit_pct, conf)
    /\ bot = Idle /\ call = NoCall /\ opt = Idle /\ paper = Idle

\* run_single_backtest with parameters from the value lists of optimize
InitSingleBacktest ==
    /\ prog = "single_backtest"
    /\ \E sl \in {3, 5}, tp \in {5, 8}, conf \in MinConfidences :
           sb = single_start(sl, tp, conf)
    /\ bot = Idle /\ call = NoCall /\ bt = Idle /\ opt = Idle /\ paper = Idle

InitOptimize ==
    /\ prog = "optimize"
    /\ \E sl \in SlLists, tp \in TpLists, conf \in ConfLists :
           opt = [ pc |-> "fetch", sl_values |-> sl, tp_values |-> tp,
                   conf_values |-> conf, pair_candles |-> << >>,
                   idx |-> 0, results |-> << >>, backtests |-> 0 ]
    /\ bot = Idle /\ call = NoCall /\ bt = Idle /\ sb = Idle /\ paper = Idle

InitTrade ==
    /\ EngineIdle
    /\ alerter = Idle
    /\ InitBot \/ InitPaper \/ InitBacktest \/ InitSingleBacktest
       \/ InitCompare \/ InitOptimize

NextTrade ==
    \/ ExecuteSignal \/ CheckExits
    \/ ExecutePaperTrade \/ PaperCheckExits
    \/ BacktesterStart \/ BacktesterStep \/ BacktesterFinish
    \/ SingleBacktestStep \/ SingleBacktestFinish
    \/ CompareStep \/ CompareFinish
    \/ OptimizeFetch \/ OptimizeCombination \/ OptimizeSort

SpecTrade == InitTrade /\ [][NextTrade]_vars

(* The alert formatters on sampled dicts *)

\* a DiscordAlerts object after __init__ (with or without webhook URL) and
\* the dict its caller holds
InitAlert ==
    /\ EngineIdle
    /\ prog = "alerts"
    /\ bot = Idle /\ call = NoCall /\ bt = Idle /\ sb = Idle /\ opt = Idle
    /\ paper = Idle
    /\ \E sig \in AlertSignals, url \in BOOLEAN :
           alerter = [ pc |-> "ready", webhook_url |-> url,
                       history |-> << >>, signal |-> sig,
                       embed |-> None, result |-> None, log |-> None ]

NextAlert == FormatSignal \/ SendSignal \/ FormatSignalLog

SpecAlert == InitAlert /\ [][NextAlert]_vars

-----------------------------------------------------------------------------
(* Properties of the pipeline on candle windows (Spec) *)

\* 60 bars, every close, high and low equal to 100
FlatWindow ==
    /\ Len(close) = 60
    /\ \A i \in 1..60 :
           close[i] = 100 * Dec2 /\ high[i] = 100 * Dec2 /\ low[i] = 100 * Dec2

\* C5: for a flat 60-bar window analyze_market_v2 followed by
\* generate_signal yields a neutral RSI (about 50), ADX 0, regime RANGING
\* (DEFAULT in the v1 detector), strategy MEAN_REVERSION and action HOLD.
C5_FlatIsNeutralHold ==
    (FlatWindow /\ pc = "signalled") =>
        /\ state.rsi_7 >= 45 * Dec2 /\ state.rsi_7 <= 55 * Dec2
        /\ state.rsi_14 >= 45 * Dec2 /\ state.rsi_14 <= 55 * Dec2
        /\ state.adx = 0
        /\ state.regime = "RANGING"
        /\ state.strategy = "MEAN_REVERSION"
        /\ signal.action = "HOLD"
        /\ analysis # NoAnalysis => analysis.regime = "DEFAULT"

\* the trailing period deltas of the close contain no loss
C12_NoLoss(period) ==
    \A i \in (Len(close) - period + 1)..Len(close) : close[i] >= close[i - 1]

\* C12: for every price array of length >= period + 1 calculate_rsi returns
\* a value in [0, 100], and exactly 100.0 whenever the trailing period
\* deltas contain no loss (average loss 0), never dividing by zero; checked
\* for the two calls of analyze_market_v2, periods 7 and 14.
C12_RsiRange ==
    ind # NoInd =>
        /\ Len(close) >= 7 + 1 =>
               /\ ind.rsi_7 >= 0 /\ ind.rsi_7 <= 100 * FP
               /\ C12_NoLoss(7) => ind.rsi_7 = 100 * FP
        /\ Len(close) >= 14 + 1 =>
               /\ ind.rsi_14 >= 0 /\ ind.rsi_14 <= 100 * FP
               /\ C12_NoLoss(14) => ind.rsi_14 = 100 * FP

\* a window without a single move: no loss, and no gain either
C12_Witness ==
    /\ ind # NoInd
    /\ Len(close) >= 14 + 1
    /\ \A i \in 2..Len(close) : close[i] = close[i - 1]
    /\ ind.rsi_14 = 100 * FP
    /\ ind.rsi_7 = 100 * FP

\* C13: calculate_sma(values, period) returns the arithmetic mean of the
\* trailing period elements, and the mean of all available elements when
\* there are fewer than period; checked for sma_50 = calculate_sma(close, 50)
\* of analyze_market_v2.
C13_SmaIsMeanOfAvailable ==
    ind # NoInd =>
        ind.sma_50 = MeanFP(IF Len(close) >= 50 THEN Tail_(close, 50) ELSE close)

\* C14: for equal-length high/low/close arrays with high >= low,
\* calculate_adx returns a value in [0, 100] and calculate_atr a value >= 0,
\* for every window length, in particular for windows much longer than the
\* period; checked on the unrounded adx and atr_14 of analyze_market_v2.
C14_AdxAtrRange ==
    ind # NoInd =>
        /\ ind.adx >= 0 /\ ind.adx <= 100 * FP
        /\ ind.atr_14 >= 0

\* C15: insufficient data is never an error: for every window shorter than
\* the longest lookback, down to length 1 and length 0, analyze_market_v2
\* (and the v1 detect_regime) returns a classification built from the
\* neutral indicator defaults and never raises.
C15_InsufficientDataClassified ==
    /\ pc # "raised"
    /\ analysis # IndexError
    /\ (state # NoState /\ Len(close) < 14 + 1) =>
           /\ ind.rsi_14 = 50 * FP /\ ind.adx = 0 /\ ind.atr_14 = 0
           /\ state.regime \in Regimes

\* the reasons of the signal contain r
HasReason(r) == \E k \in 1..Len(signal.reasoning) : signal.reasoning[k] = r

\* the sign of x: -1, 0 or 1
Sign(x) == IF x > 0 THEN 1 ELSE IF x < 0 THEN -1 ELSE 0

\* C19: calculate_macd returns (0.0, 0.0, 0.0) for fewer than slow + signal
\* prices; otherwise the signal line is 0.9 x the MACD line and the
\* histogram is MACD minus signal, so the histogram is positive, negative or
\* zero exactly when the MACD line is, and the MACD confirmation in
\* generate_signal depends only on the sign of the MACD line.
C19_MacdSignOnly ==
    ind # NoInd =>
        /\ Len(close) < slow + signal_period =>
               ind.macd = 0 /\ ind.macd_signal = 0 /\ ind.macd_histogram = 0
        /\ ind.macd_signal = 9 * ind.macd                      \* tenths of FP
        /\ ind.macd_histogram = 10 * ind.macd - ind.macd_signal
        /\ Sign(ind.macd_histogram) = Sign(ind.macd)
        /\ (pc = "signalled" /\ state.strategy = "MEAN_REVERSION") =>
               /\ HasReason("MACD bullish confirmation") <=>
                      (signal.action = "BUY" /\ ind.macd > 0)
               /\ HasReason("MACD bearish confirmation") <=>
                      (signal.action = "SELL" /\ ind.macd < 0)

-----------------------------------------------------------------------------
(* Properties of the paper trader's RSI (SpecSoda) *)

\* C11: for every price array of length < period + 1 (length 0 and 1
\* included) RSI returns exactly 50.0 and does not raise, in each RSI
\* implementation of the repository; here calculate_rsi of
\* soda_paper_trader.py with its period of 14.
C11_ShortWindowNeutral ==
    (rsi # NoRsi /\ Len(close) < rsi_period + 1) => rsi = Float(50 * FP)

-----------------------------------------------------------------------------
(* Properties of the regime classifier and the sizing (SpecClassify) *)

\* C1: detect_regime is total and follows the decision table, first match
\* wins: adx > 25 and price < sma50 gives (BEAR_TREND, RSI_MOMENTUM, 0.75);
\* adx > 25 and price >= sma50 gives (BULL_TREND, MEAN_REVERSION, 1.0);
\* adx < 20 gives (RANGING, MEAN_REVERSION, 1.25); otherwise (NEUTRAL,
\* MEAN_REVERSION, 0.5); adx = 25 and adx = 20 exactly give NEUTRAL.
C1_DecisionTable ==
    classified # NoResult =>
        /\ classified[1] \in Regimes
        /\ (ind.adx > 25 * FP /\ ind.price < ind.sma_50) =>
               classified = <<"BEAR_TREND", "RSI_MOMENTUM", (75 * FP) \div 100>>
        /\ (ind.adx > 25 * FP /\ ind.price >= ind.sma_50) =>
               classified = <<"BULL_TREND", "MEAN_REVERSION", FP>>
        /\ (ind.adx < 20 * FP) =>
               classified = <<"RANGING", "MEAN_REVERSION", (125 * FP) \div 100>>
        /\ (ind.adx >= 20 * FP /\ ind.adx <= 25 * FP) =>
               classified = <<"NEUTRAL", "MEAN_REVERSION", (50 * FP) \div 100>>

C1_Witness ==
    /\ classified # NoResult
    /\ ind.adx = 25 * FP
    /\ ind.price < ind.sma_50
    /\ classified[1] = "NEUTRAL"

\* C2: the position_size_multiplier of every MarketState returned by
\* analyze_market_v2 is within [0.25, 1.5].
C2_MultiplierRange ==
    state # NoState =>
        /\ state.position_size_multiplier >= 25
        /\ state.position_size_multiplier <= 150

\* ranging, quiet, high volume: 1.25 x 1.2 x 1.1 = 1.65 before the clamp
C2_Witness ==
    /\ state # NoState
    /\ state.regime = "RANGING"
    /\ ind.atr_percent < 2 * FP
    /\ ind.vol_ratio > (15 * FP) \div 10
    /\ state.position_size_multiplier = 150

\* the base multiplier of the state's regime, in hundredths
C10_Base ==
    CASE state.regime = "BEAR_TREND" -> 75
      [] state.regime = "BULL_TREND" -> 100
      [] state.regime = "RANGING" -> 125
      [] state.regime = "NEUTRAL" -> 50

\* the volatility factor, in tenths
C10_AtrTenths ==
    IF ind.atr_percent > 5 * FP THEN 7
    ELSE IF ind.atr_percent < 2 * FP THEN 12 ELSE 10

\* the volume factor, in tenths
C10_VolTenths ==
    IF 10 * ind.vol_ratio > 15 * FP THEN 11
    ELSE IF 10 * ind.vol_ratio < 5 * FP THEN 8 ELSE 10

\* C10: the size adjustments are multiplicative factors on the base
\* multiplier, applied in order: atr_percent > 5 gives x0.7, else
\* atr_percent < 2 gives x1.2, else x1; then volume_ratio > 1.5 gives x1.1,
\* else volume_ratio < 0.5 gives x0.8, else x1; the product is clamped to
\* [0.25, 1.5] (and then rounded to two decimals in the MarketState).
C10_SizeFactors ==
    state # NoState =>
        LET product == C10_Base * C10_AtrTenths * C10_VolTenths  \* x 10^-4
            clamped == IF product < 2500 THEN 2500
                       ELSE IF product > 15000 THEN 15000 ELSE product
        IN  state.position_size_multiplier \in Round(clamped * 100, FPperDec2)

\* bear trend, high volatility, low volume: 0.75 x 0.7 x 0.8 = 0.42
C10_Witness ==
    /\ state # NoState
    /\ state.regime = "BEAR_TREND"
    /\ ind.atr_percent > 5 * FP
    /\ ind.vol_ratio < FP \div 2
    /\ state.position_size_multiplier = 42

\* C16: the v1 classifier is the two-way collapse of the v2 classifier: for
\* every (adx, price, sma50), with the default threshold 25, the v1
\* detect_regime yields BEAR_TREND exactly when the v2 detect_regime does
\* and DEFAULT otherwise, and the v1 get_strategy returns the strategy v2
\* returns (RSI_MOMENTUM for BEAR_TREND, MEAN_REVERSION for the rest).
C16_TwoWayCollapse ==
    (classified # NoResult /\ analysis # NoAnalysis) =>
        /\ analysis.regime = "BEAR_TREND" <=> classified[1] = "BEAR_TREND"
        /\ analysis.regime # "BEAR_TREND" => analysis.regime = "DEFAULT"
        /\ analysis.strategy = classified[2]
        /\ analysis.strategy =
               (IF classified[1] = "BEAR_TREND" THEN "RSI_MOMENTUM"
                ELSE "MEAN_REVERSION")

\* adx exactly 25 below the average: neither version sees a trend
C16_Witness ==
    /\ classified # NoResult /\ analysis # NoAnalysis
    /\ ind.adx = 25 * FP
    /\ ind.price < ind.sma_50
    /\ classified[1] = "NEUTRAL"
    /\ analysis.regime = "DEFAULT"
    /\ analysis.strategy = "MEAN_REVERSION"

-----------------------------------------------------------------------------
(* Properties of generate_signal (SpecSignal) *)

\* the universal adjustments of the state, by the rules of the spec
HighVolume == state.volume_ratio > 150
VolumeBonus == IF HighVolume THEN 10 ELSE 0
NeutralPenalty == IF state.regime = "NEUTRAL" THEN 15 ELSE 0

\* C3: the confidence returned by generate_signal is within [0, 100].
C3_ConfidenceRange ==
    signal # NoSignal => signal.confidence >= 0 /\ signal.confidence <= 100

\* every bonus fires: 70 + 10 + 10
C3_Witness ==
    /\ signal # NoSignal
    /\ signal.action = "BUY"
    /\ state.macd_histogram > 0
    /\ HighVolume
    /\ signal.confidence = 90

\* the scenario of C4, after generate_signal
C4_Scenario ==
    /\ signal # NoSignal
    /\ state.rsi_7 = 25 * Dec2
    /\ state.rsi_14 = 35 * Dec2
    /\ state.strategy = "MEAN_REVERSION"

\* C4 as stated: rsi_7 = 25, rsi_14 = 35 and strategy MEAN_REVERSION give
\* BUY with confidence >= 70, whatever the regime.
C4_BuyAtLeast70 ==
    C4_Scenario => signal.action = "BUY" /\ signal.confidence >= 70

\* C4 amended: rsi_7 = 25, rsi_14 = 35 and strategy MEAN_REVERSION give BUY;
\* the confidence is >= 70 when the regime is not NEUTRAL and >= 55 (70 less
\* the neutral-regime penalty of 15) when it is NEUTRAL.
C4_BuyAtLeast70UnlessNeutral ==
    C4_Scenario =>
        /\ signal.action = "BUY"
        /\ state.regime # "NEUTRAL" => signal.confidence >= 70
        /\ state.regime = "NEUTRAL" => signal.confidence >= 55

C4_Witness ==
    /\ C4_Scenario
    /\ state.regime = "NEUTRAL"
    /\ signal.action = "BUY"
    /\ signal.confidence = 55

\* C6: in the MEAN_REVERSION branch the action is BUY iff rsi_7 < 30 and
\* rsi_14 < 40, SELL iff rsi_7 > 70 and rsi_14 > 60, HOLD otherwise; the
\* comparisons are strict.
C6_MeanReversionAction ==
    (signal # NoSignal /\ state.strategy = "MEAN_REVERSION") =>
        /\ signal.action \in Actions
        /\ signal.action = "BUY" <=>
               (state.rsi_7 < 3000 /\ state.rsi_14 < 4000)
        /\ signal.action = "SELL" <=>
               (state.rsi_7 > 7000 /\ state.rsi_14 > 6000)
        /\ (state.rsi_7 = 3000 \/ state.rsi_14 = 4000) => signal.action = "HOLD"

C6_Witness ==
    /\ signal # NoSignal
    /\ state.strategy = "MEAN_REVERSION"
    /\ state.rsi_7 = 3000
    /\ state.rsi_14 < 4000
    /\ signal.action = "HOLD"

\* C7: in the RSI_MOMENTUM branch the action is BUY iff rsi_14 > 50 and
\* macd_histogram > 0 and price > ema_20, SELL iff rsi_14 < 50 and
\* macd_histogram < 0 and price < ema_20, HOLD otherwise; the base
\* confidence is 65 on BUY/SELL and 50 on HOLD and no MACD-confirmation
\* bonus is added (no MACD reason, nothing beyond the universal adjustments).
C7_MomentumBranch ==
    (signal # NoSignal /\ state.strategy = "RSI_MOMENTUM") =>
        /\ signal.action \in Actions
        /\ signal.action = "BUY" <=>
               (state.rsi_14 > 5000 /\ state.macd_histogram > 0
                /\ state.price > state.ema_20)
        /\ signal.action = "SELL" <=>
               (state.rsi_14 < 5000 /\ state.macd_histogram < 0
                /\ state.price < state.ema_20)
        /\ signal.confidence + NeutralPenalty - VolumeBonus
               = (IF signal.action = "HOLD" THEN 50 ELSE 65)
        /\ \A k \in 1..Len(signal.reasoning) :
               signal.reasoning[k] \notin {"MACD bullish confirmation",
                                           "MACD bearish confirmation"}

C7_Witness ==
    /\ signal # NoSignal
    /\ state.strategy = "RSI_MOMENTUM"
    /\ state.macd_histogram > 0
    /\ signal.action = "BUY"
    /\ state.regime = "BEAR_TREND"
    /\ ~HighVolume
    /\ signal.confidence = 65

\* the MACD histogram agrees with the action
C8_MacdConfirmed ==
    \/ signal.action = "BUY" /\ state.macd_histogram > 0
    \/ signal.action = "SELL" /\ state.macd_histogram < 0

\* C8: in the MEAN_REVERSION branch the base confidence is 70 on BUY or SELL
\* and 50 on HOLD, and exactly +10 is added iff (BUY and macd_histogram > 0)
\* or (SELL and macd_histogram < 0); a HOLD never receives the MACD bonus.
C8_MeanReversionConfidence ==
    (signal # NoSignal /\ state.strategy = "MEAN_REVERSION") =>
        LET branch == signal.confidence + NeutralPenalty - VolumeBonus
        IN  /\ C8_MacdConfirmed => branch = 80
            /\ (~C8_MacdConfirmed /\ signal.action # "HOLD") => branch = 70
            /\ signal.action = "HOLD" => branch = 50

C8_Witness ==
    /\ signal # NoSignal
    /\ state.strategy = "MEAN_REVERSION"
    /\ signal.action = "SELL"
    /\ state.macd_histogram < 0
    /\ state.regime = "BULL_TREND"
    /\ ~HighVolume
    /\ signal.confidence = 80

\* the confidence the strategy branch leaves, by the action it chose
C9_BasePlusMacd ==
    IF signal.action = "HOLD" THEN 50
    ELSE IF state.strategy # "MEAN_REVERSION" THEN 65
    ELSE IF C8_MacdConfirmed THEN 80 ELSE 70

\* C9: after either branch +10 is added iff volume_ratio > 1.5 and 15 is
\* subtracted iff regime = NEUTRAL, whatever the action (HOLD included), and
\* the final confidence is clamp(base + MACD bonus + volume bonus - neutral
\* penalty, 0, 100).
C9_UniversalAdjustments ==
    signal # NoSignal =>
        LET raw == C9_BasePlusMacd
                   + (IF state.volume_ratio > 150 THEN 10 ELSE 0)
                   - (IF state.regime = "NEUTRAL" THEN 15 ELSE 0)
        IN  signal.confidence =
                (IF raw < 0 THEN 0 ELSE IF raw > 100 THEN 100 ELSE raw)

\* a HOLD with high volume in a neutral regime: 50 + 10 - 15
C9_Witness ==
    /\ signal # NoSignal
    /\ signal.action = "HOLD"
    /\ state.volume_ratio > 150
    /\ state.regime = "NEUTRAL"
    /\ signal.confidence = 45

\* the reason each rule gives when it fires, << >> when it does not
C20_RsiReason ==
    IF state.strategy # "MEAN_REVERSION" THEN << >>
    ELSE IF signal.action = "BUY" THEN <<"RSI oversold">>
    ELSE IF signal.action = "SELL" THEN <<"RSI overbought">>
    ELSE << >>

C20_MacdReason ==
    IF state.strategy # "MEAN_REVERSION" THEN << >>
    ELSE IF signal.action = "BUY" /\ state.macd_histogram > 0
    THEN <<"MACD bullish confirmation">>
    ELSE IF signal.action = "SELL" /\ state.macd_histogram < 0
    THEN <<"MACD bearish confirmation">>
    ELSE << >>

C20_MomentumReason ==
    IF state.strategy = "MEAN_REVERSION" THEN << >>
    ELSE IF signal.action = "BUY"
    THEN <<"Momentum bullish: RSI>50, MACD+, Price>EMA20">>
    ELSE IF signal.action = "SELL"
    THEN <<"Momentum bearish: RSI<50, MACD-, Price<EMA20">>
    ELSE << >>

C20_VolumeReason == IF HighVolume THEN <<"High volume">> ELSE << >>

C20_NeutralReason ==
    IF state.regime = "NEUTRAL"
    THEN <<"Neutral regime - reduced confidence">> ELSE << >>

\* C20: every rule of generate_signal that fires (RSI oversold/overbought,
\* MACD confirmation, momentum, high volume, neutral regime) contributes one
\* reason, in that order, and the reasoning is the sentinel "No clear signal"
\* exactly when no rule fired; in particular a HOLD with volume_ratio > 1.5
\* or regime NEUTRAL does not carry the sentinel.
C20_OrderedReasons ==
    signal # NoSignal =>
        LET fired == C20_RsiReason \o C20_MacdReason \o C20_MomentumReason
                     \o C20_VolumeReason \o C20_NeutralReason
        IN  /\ fired # << >> => signal.reasoning = fired
            /\ fired = << >> <=> signal.reasoning = <<"No clear signal">>
            /\ (signal.action = "HOLD"
                /\ (HighVolume \/ state.regime = "NEUTRAL")) =>
                   ~HasReason("No clear signal")

\* a HOLD in a neutral regime with high volume: two reasons, no sentinel
C20_Witness ==
    /\ signal # NoSignal
    /\ signal.action = "HOLD"
    /\ HighVolume
    /\ state.regime = "NEUTRAL"
    /\ signal.reasoning = <<"High volume", "Neutral regime - reduced confidence">>

-----------------------------------------------------------------------------
(* Properties of the trading programs (SpecTrade) *)

\* a call of execute_signal opens a position only from a signal that is not
\* NEUTRAL and has confidence >= 65, and opens one for a pair without
\* position from a non-NEUTRAL signal of confidence exactly 65
C17_BotGate ==
    (prog = "bot" /\ call' # NoCall /\ "pair" \in DOMAIN call') =>
        LET p == call'.pair
            s == call'.signal
            opened == bot.positions[p] = None /\ bot'.positions[p] # None
        IN  /\ \A q \in Pairs \ {p} : bot'.positions[q] = bot.positions[q]
            /\ opened => /\ s.signal # "NEUTRAL"
                         /\ s.confidence >= bot_min_confidence
                         /\ bot'.positions[p].signal_confidence = s.confidence
            /\ ( /\ s.signal # "NEUTRAL"
                 /\ s.confidence = bot_min_confidence
                 /\ bot.positions[p] = None ) => opened

\* an iteration of Backtester.run opens a position only from a signal that
\* is not NEUTRAL and has confidence >= min_confidence, and opens one when
\* no position is left open and the signal is non-NEUTRAL with confidence
\* exactly min_confidence
C17_BacktesterGate ==
    (prog = "backtest" /\ bt.pc = "loop" /\ bt'.pc = "loop") =>
        LET s == bt'.signal
            flat == bt.position = None \/ Len(bt'.trades) > Len(bt.trades)
            opened == bt'.position # None /\ bt'.position.entry_idx = bt.i
        IN  /\ opened => /\ s.signal # "NEUTRAL"
                         /\ s.confidence >= bt.min_confidence
                         /\ bt'.position.signal_confidence = s.confidence
            /\ ( /\ s.signal # "NEUTRAL"
                 /\ s.confidence = bt.min_confidence
                 /\ flat ) => opened

\* the same for an iteration of run_single_backtest
C17_SingleBacktestGate ==
    (prog = "single_backtest" /\ sb.pc = "loop" /\ sb'.pc = "loop") =>
        LET s == sb'.signal
            flat == sb.position = None \/ Len(sb'.trades) > Len(sb.trades)
            opened == flat /\ sb'.position # None
        IN  /\ opened => /\ s.signal # "NEUTRAL"
                         /\ s.confidence >= sb.min_confidence
            /\ ( /\ flat
                 /\ s.signal # "NEUTRAL"
                 /\ s.confidence = sb.min_confidence ) => opened

\* C17: minimum-confidence gate.  In TradingBot.execute_signal,
\* Backtester.run and run_single_backtest no step opens a position from a
\* signal that is NEUTRAL or whose confidence is below the minimum
\* confidence, whatever its direction, and a non-NEUTRAL signal whose
\* confidence equals the minimum opens one when none is open.
C17_MinConfidenceGate ==
    [][C17_BotGate /\ C17_BacktesterGate /\ C17_SingleBacktestGate]_vars

\* execute_signal was last called for a pair with a signal one below 65 and
\* left it without position, while the other pair holds a short position
\* opened at confidence exactly 65
C17_Witness ==
    /\ prog = "bot"
    /\ call # NoCall
    /\ "pair" \in DOMAIN call
    /\ call.signal.signal = "STRONG_LONG"
    /\ call.signal.confidence = bot_min_confidence - 1
    /\ bot.positions[call.pair] = None
    /\ \E q \in Pairs :
           /\ bot.positions[q] # None
           /\ bot.positions[q].signal_confidence = bot_min_confidence
           /\ bot.positions[q].side = "short"

\* the combinations among the first n of the product with tp > sl
C18_Valid(o, n) ==
    { k \in 0..(n - 1) : Combination(o, k).tp > Combination(o, k).sl }

\* C18: optimize skips every combination with tp <= sl without running a
\* backtest: every entry of results has tp > sl, there are as many entries
\* as combinations with tp > sl among those the loop has passed (all of
\* them at the return, when data was fetched for at least one pair), and
\* run_single_backtest ran once per entry and fetched pair.
C18_SkipsTpNotAboveSl ==
    (prog = "optimize" /\ opt.pc \in {"loop", "done"}) =>
        LET fetched == DOMAIN opt.pair_candles
        IN  /\ \A k \in 1..Len(opt.results) :
                   opt.results[k].params.tp > opt.results[k].params.sl
            /\ Len(opt.results) = Cardinality(C18_Valid(opt, opt.idx))
            /\ opt.backtests = Len(opt.results) * Cardinality(fetched)
            /\ (opt.pc = "done" /\ fetched # {}) => opt.idx = Total(opt)

\* optimize returned with data for both pairs, after skipping some
\* combinations and evaluating others
C18_Witness ==
    /\ prog = "optimize"
    /\ opt.pc = "done"
    /\ DOMAIN opt.pair_candles = Pairs
    /\ Len(opt.results) > 0
    /\ Len(opt.results) < Total(opt)
    /\ opt.backtests = 2 * Len(opt.results)

-----------------------------------------------------------------------------
(* Properties of the alert formatters (SpecAlert) *)

\* the names of the fields of an embed, in order
C21_Names(embed) == [k \in 1..Len(embed.fields) |-> embed.fields[k].name]

\* the names the embed of a dict with these keys is to have
C21_Expected(keys) ==
    <<"Price", "RSI", "Strategy">>
    \o (IF "stop_loss" \in keys THEN <<"Stop Loss">> ELSE << >>)
    \o (IF "take_profit" \in keys THEN <<"Take Profit">> ELSE << >>)
    \o (IF "confidence" \in keys THEN <<"Confidence">> ELSE << >>)

C21_Fields ==
    (prog = "alerts" /\ alerter.embed # None) =>
        C21_Names(alerter.embed) = C21_Expected(DOMAIN alerter.signal)

C21_InputKept ==
    prog = "alerts" => alerter'.signal = alerter.signal

\* C21: the embed of _format_signal has the fields price, RSI and strategy
\* followed by a stop-loss, a take-profit and a confidence field, each
\* present exactly when its key is in the input dict, and no call of
\* _format_signal, send_signal or format_signal_log changes the dict it is
\* given.
C21_OptionalFieldsAndInputKept ==
    []C21_Fields /\ [][C21_InputKept]_vars

\* an alert with a stop-loss and a confidence but no take-profit was sent
\* and entered the history
C21_Witness ==
    /\ prog = "alerts"
    /\ alerter.pc = "sent"
    /\ Len(alerter.history) = 1
    /\ alerter.embed # None
    /\ {"stop_loss", "confidence"} \subseteq DOMAIN alerter.signal
    /\ "take_profit" \notin DOMAIN alerter.signal
    /\ Len(alerter.embed.fields) = 5

-----------------------------------------------------------------------------
(* Further properties of the sizing (SpecClassify) *)

-----------------------------------------------------------------------------
(* Further properties of the trading programs (SpecTrade) *)

\* what the exit rule asks for a position at a price: the side-adjusted
\* return (negated for a short) at or below -sl percent is a stop-loss,
\* otherwise at or above tp percent a take-profit, otherwise none
C23_Outcome(pos, price, sl, tp) ==
    LET move == price - pos.entry_price
        ret == IF pos.side = "short" THEN -move ELSE move
    IN  IF ret * 100 <= -sl * pos.entry_price THEN "stop_loss"
        ELSE IF ret * 100 >= tp * pos.entry_price THEN "take_profit"
        ELSE "open"

\* the trades (or closings) added by a step
C23_Added(old, new) == SubSeq(new, Len(old) + 1, Len(new))

\* a step of check_exits of a state st to st2 with the closes fetched: a
\* position whose close is fetched is removed, with a record of the close
\* and the reason, iff the rule says so, and stays as it is otherwise
C23_Scan(st, st2, fetched, added, sl, tp) ==
    /\ \A p \in Pairs :
           st.positions[p] # None =>
               LET pos == st.positions[p]
                   out == IF p \in DOMAIN fetched
                          THEN C23_Outcome(pos, fetched[p], sl, tp)
                          ELSE "open"
               IN  IF out = "open" THEN st2.positions[p] = pos
                   ELSE /\ st2.positions[p] = None
                        /\ \E k \in 1..Len(added) :
                               /\ added[k].reason = out
                               /\ added[k].exit_price = fetched[p]
    /\ Len(added) = Cardinality({ p \in Pairs :
                        /\ st.positions[p] # None
                        /\ st2.positions[p] = None })

C23_Bot ==
    (prog = "bot" /\ call' # NoCall /\ "fetched" \in DOMAIN call') =>
        C23_Scan(bot, bot', call'.fetched, C23_Added(bot.trades, bot'.trades),
                 bot_stop_loss_pct, bot_take_profit_pct)

C23_Paper ==
    (prog = "paper" /\ paper'.fetched # None) =>
        C23_Scan(paper, paper', paper'.fetched,
                 C23_Added(paper.closed, paper'.closed),
                 paper_stop_loss_pct, paper_take_profit_pct)

\* a bar of a backtest b to b2 with a position open: it is closed, with one
\* trade of the reason named, iff the rule says so at the bar's close, and
\* stays as it is otherwise
C23_Bar(b, b2, sl, tp, stop, target) ==
    (b.pc = "loop" /\ b2.pc = "loop" /\ b.position # None) =>
        LET out == C23_Outcome(b.position, b2.current_price, sl, tp)
            added == C23_Added(b.trades, b2.trades)
        IN  IF out = "open"
            THEN b2.position = b.position /\ added = << >>
            ELSE /\ Len(added) = 1
                 /\ added[1].reason = (IF out = "stop_loss" THEN stop
                                       ELSE target)
                 /\ b2.position # b.position

C23_Backtester ==
    prog = "backtest" =>
        C23_Bar(bt, bt', stop_loss_pct, take_profit_pct,
                "stop_loss", "take_profit")

C23_SingleBacktest ==
    prog = "single_backtest" =>
        C23_Bar(sb, sb', sb.stop_loss_pct, sb.take_profit_pct, "sl", "tp")

\* C23: exit rule of the trading loops.  In check_exits of the bot and of
\* the paper trader and at every bar of Backtester.run and of
\* run_single_backtest, an open position is closed iff its side-adjusted
\* return is at or below -stop_loss_pct (reason stop_loss, tested first;
\* "sl" in run_single_backtest) or at or above take_profit_pct (reason
\* take_profit, resp. "tp"); otherwise it stays open with the same entry
\* price and quantity.
C23_ExitRule ==
    [][C23_Bot /\ C23_Paper /\ C23_Backtester /\ C23_SingleBacktest]_vars

\* check_exits of the bot has just closed a short at its stop-loss boundary
\* (105.00 for an entry at 100.00) and left the other pair's long, seen at
\* its entry price, open
C23_Witness ==
    /\ prog = "bot"
    /\ call # NoCall
    /\ "fetched" \in DOMAIN call
    /\ Len(bot.trades) = 1
    /\ bot.trades[1].side = "short"
    /\ bot.trades[1].reason = "stop_loss"
    /\ bot.trades[1].exit_price = 105 * Dec2
    /\ \E p \in DOMAIN call.fetched :
           /\ bot.positions[p] # None
           /\ bot.positions[p].side = "long"
           /\ call.fetched[p] = bot.positions[p].entry_price

\* the trade records of Backtester.run that do not overlap: each is entered
\* no later than it is left, and no earlier than the one before it is left
C24_InSequence(trades) ==
    /\ \A k \in 1..Len(trades) : trades[k].entry_idx <= trades[k].exit_idx
    /\ \A k \in 1..(Len(trades) - 1) :
           trades[k].exit_idx <= trades[k + 1].entry_idx

C24_State ==
    (prog = "backtest" /\ bt.pc \in {"loop", "done"}) =>
        /\ C24_InSequence(bt.trades)
        /\ (bt.position # None /\ bt.trades # << >>) =>
               bt.trades[Len(bt.trades)].exit_idx <= bt.position.entry_idx
        /\ bt.position # None => bt.position.entry_idx < bt.i
        /\ \A k \in 1..Len(bt.trades) :
               bt.trades[k].reason = "end_of_test" =>
                   bt.pc = "done" /\ k = Len(bt.trades)
        /\ bt.pc = "done" => bt.position = None

C24_Step ==
    (prog = "backtest" /\ bt.pc = "loop") =>
        LET added == C23_Added(bt.trades, bt'.trades)
            left == bt.position # None /\ bt'.position # bt.position
            entered == bt'.position # None /\ bt'.position # bt.position
        IN  /\ SubSeq(bt'.trades, 1, Len(bt.trades)) = bt.trades
            /\ Len(added) = (IF left THEN 1 ELSE 0)
            /\ left => /\ added[1].entry_idx = bt.position.entry_idx
                       /\ added[1].entry_price = bt.position.entry_price
                       /\ added[1].side = bt.position.side
                       /\ bt'.pc = "done" => added[1].reason = "end_of_test"
            /\ entered => /\ bt'.position.entry_idx = bt.i
                          /\ bt.position = None \/ left

\* C24: in Backtester.run at most one position is open at any bar; a
\* position is opened only when none is open, possibly on the bar on which
\* the previous one was closed; every position opened is closed once and
\* recorded as one trade with entry_idx <= exit_idx; a position still open
\* after the last bar is closed with reason end_of_test, so the run ends
\* with no open position.
C24_OnePositionAtATime ==
    []C24_State /\ [][C24_Step]_vars

\* a finished run of three trades: the second entered on the bar on which
\* the first was closed, the third closed at the end of the test
C24_Witness ==
    /\ prog = "backtest"
    /\ bt.pc = "done"
    /\ Len(bt.trades) = 3
    /\ bt.trades[2].entry_idx = bt.trades[1].exit_idx
    /\ bt.trades[1].reason = "take_profit"
    /\ bt.trades[3].reason = "end_of_test"
    /\ bt.trades[3].entry_idx = bt.trades[3].exit_idx

\* the sum of the pnl of trade records
RECURSIVE C25_SumPnl(_)
C25_SumPnl(trades) ==
    IF trades = << >> THEN 0
    ELSE trades[Len(trades)].pnl
         + C25_SumPnl(SubSeq(trades, 1, Len(trades) - 1))

\* C25: balance conservation in Backtester.run.  The balance is the
\* starting balance plus the pnl of the trades recorded so far, at every
\* bar and at the end, so final_balance = starting_balance + sum of pnl,
\* total_pnl is that sum, and wins + losses = total_trades.
C25_BalanceConserved ==
    (prog = "backtest" /\ bt.pc \in {"loop", "done"}) =>
        /\ bt.balance = starting_balance + C25_SumPnl(bt.trades)
        /\ bt.pc = "done" =>
               /\ bt.results.final_balance
                      = starting_balance + C25_SumPnl(bt.results.trades)
               /\ bt.results.total_pnl = C25_SumPnl(bt.results.trades)
               /\ bt.results.total_trades = Len(bt.results.trades)
               /\ bt.results.wins + bt.results.losses = bt.results.total_trades
               /\ bt.results.wins
                      = Cardinality({ k \in 1..Len(bt.results.trades) :
                                        bt.results.trades[k].pnl > 0 })

\* a finished run with a winning trade, a losing trade and a last trade
\* closed at the end of the test with a pnl that is not zero
C25_Witness ==
    /\ prog = "backtest"
    /\ bt.pc = "done"
    /\ bt.results.wins >= 1
    /\ bt.results.losses >= 1
    /\ bt.results.total_pnl # 0
    /\ bt.results.trades[Len(bt.results.trades)].reason = "end_of_test"
    /\ bt.results.trades[Len(bt.results.trades)].pnl # 0

\* C26: in every trade record of Backtester.run, those closed with reason
\* end_of_test and those on the short side included, pnl_pct is the
\* side-adjusted percentage return, so pnl_pct and pnl never have opposite
\* signs.
C26_PnlPctSideAdjusted ==
    (prog = "backtest" /\ bt.pc \in {"loop", "done"}) =>
        \A k \in 1..Len(bt.trades) :
            LET t == bt.trades[k]
                move == t.exit_price - t.entry_price
                ret == IF t.side = "short" THEN -move ELSE move
            IN  /\ t.pnl_pct = ScaledDiv(ret * 100, t.entry_price, 4)
                /\ ~(t.pnl_pct > 0 /\ t.pnl < 0)
                /\ ~(t.pnl_pct < 0 /\ t.pnl > 0)

\* the reason run_single_backtest gives where Backtester.run gives r
C27_ShortReason(r) ==
    CASE r = "stop_loss" -> "sl"
      [] r = "take_profit" -> "tp"
      [] r = "end_of_test" -> "end"

\* C27: for the same candles, lookback, stop-loss, take-profit, minimum
\* confidence, position size and starting balance and an engine that
\* returns the same signal for the same window, Backtester.run and
\* run_single_backtest hold the same position and the same balance after
\* every bar and record the same exits, hence return the same number of
\* trades, wins and final balance, though run_single_backtest analyses
\* only the bars at which it holds no position.
C27_SameTrades ==
    prog = "compare" =>
        /\ bt.pc = sb.pc
        /\ bt.balance = sb.balance
        /\ (bt.position = None) = (sb.position = None)
        /\ bt.position # None =>
               /\ bt.position.side = sb.position.side
               /\ bt.position.entry_price = sb.position.entry_price
               /\ bt.position.qty = sb.position.qty
        /\ Len(bt.trades) = Len(sb.trades)
        /\ \A k \in 1..Len(bt.trades) :
               /\ bt.trades[k].pnl = sb.trades[k].pnl
               /\ C27_ShortReason(bt.trades[k].reason) = sb.trades[k].reason
        /\ bt.pc = "done" =>
               /\ bt.results.total_trades = sb.results.trades
               /\ bt.results.wins = sb.results.wins
               /\ bt.results.final_balance = sb.results.final_balance

\* both runs are over with the same two trades, after a bar that only
\* Backtester.run analysed (the signals they saw last differ)
C27_Witness ==
    /\ prog = "compare"
    /\ bt.pc = "done"
    /\ sb.pc = "done"
    /\ bt.results.total_trades = 2
    /\ sb.results.trades = 2
    /\ bt.results.wins = 1
    /\ bt.signal # sb.signal
    /\ bt.results.final_balance # starting_balance

\* the pairs with a position
C28_Held(b) == { p \in Pairs : b.positions[p] # None }

\* the realised pnl of a trade record: (exit_price - entry_price) * qty,
\* negated for a short
C28_Realised(t) ==
    LET move == t.exit_price - t.entry_price
    IN  RoundDiv((IF t.side = "short" THEN -move ELSE move) * t.qty, 10^4)

\* the keys of the positions dict are the pairs with a position, each once
C28_OnePerPair ==
    prog = "bot" =>
        /\ { bot.order[k] : k \in 1..Len(bot.order) } = C28_Held(bot)
        /\ Len(bot.order) = Cardinality(C28_Held(bot))
        /\ bot.balance = starting_balance + C25_SumPnl(bot.trades)

\* a call of execute_signal changes neither balance nor trades, changes
\* nothing for a pair that has a position, and no other pair's position
C28_ExecuteSignal ==
    (prog = "bot" /\ call' # NoCall /\ "pair" \in DOMAIN call') =>
        /\ bot'.balance = bot.balance
        /\ bot'.trades = bot.trades
        /\ bot.positions[call'.pair] # None => bot' = bot
        /\ C28_Held(bot) \subseteq C28_Held(bot')

\* a call of check_exits opens nothing; every position it removes is one
\* _close_position: one trade record appended, of that position, and the
\* balance moved by that record's realised pnl
C28_CheckExits ==
    (prog = "bot" /\ call' # NoCall /\ "fetched" \in DOMAIN call') =>
        LET added == C23_Added(bot.trades, bot'.trades)
            closed == C28_Held(bot) \ C28_Held(bot')
        IN  /\ C28_Held(bot') \subseteq C28_Held(bot)
            /\ SubSeq(bot'.trades, 1, Len(bot.trades)) = bot.trades
            /\ Len(added) = Cardinality(closed)
            /\ \A k \in 1..Len(added) :
                   /\ added[k].pnl = C28_Realised(added[k])
                   /\ \E p \in closed :
                          /\ added[k].entry_price = bot.positions[p].entry_price
                          /\ added[k].qty = bot.positions[p].qty
                          /\ added[k].side = bot.positions[p].side
            /\ bot'.balance = bot.balance + C25_SumPnl(added)

\* C28: the TradingBot keeps at most one open position per pair.
\* execute_signal for a pair that has a position leaves positions, balance
\* and trades unchanged; opening a position never changes balance or
\* trades; the balance changes only in _close_position, by exactly the
\* realised pnl, which also removes the position and appends exactly one
\* trade record.
C28_BotFrame ==
    []C28_OnePerPair /\ [][C28_ExecuteSignal /\ C28_CheckExits]_vars

\* check_exits has closed both positions, a long at a loss and a short
\* at a loss, and the balance went down by the two pnl
C28_Witness ==
    /\ prog = "bot"
    /\ call # NoCall
    /\ "fetched" \in DOMAIN call
    /\ C28_Held(bot) = {}
    /\ Len(bot.trades) = 2
    /\ bot.trades[1].side = "long"
    /\ bot.trades[2].side = "short"
    /\ bot.trades[1].pnl < 0
    /\ bot.trades[2].pnl < 0
    /\ bot.balance = starting_balance + bot.trades[1].pnl + bot.trades[2].pnl

-----------------------------------------------------------------------------
(* Properties of analyze_market_v2 on sampled indicators, followed by *)
(* generate_signal (SpecAnalyze)                                      *)

\* C29: in every MarketState returned by analyze_market_v2 the strategy is
\* RSI_MOMENTUM exactly when the regime is BEAR_TREND; so a signal
\* generated from such a state carries the NEUTRAL-regime penalty only
\* with the strategy MEAN_REVERSION.
C29_MomentumIffBear ==
    /\ state # NoState =>
           /\ state.strategy \in {"RSI_MOMENTUM", "MEAN_REVERSION"}
           /\ (state.strategy = "RSI_MOMENTUM") = (state.regime = "BEAR_TREND")
    /\ (signal # NoSignal /\ HasReason("Neutral regime - reduced confidence")) =>
           /\ state.regime = "NEUTRAL"
           /\ signal.strategy = "MEAN_REVERSION"

\* a signal generated from a NEUTRAL state: the mean-reversion branch and
\* the penalty
C29_Witness ==
    /\ pc = "signalled"
    /\ signal # NoSignal
    /\ state.regime = "NEUTRAL"
    /\ state.strategy = "MEAN_REVERSION"
    /\ signal.strategy = "MEAN_REVERSION"
    /\ HasReason("Neutral regime - reduced confidence")

-----------------------------------------------------------------------------
(* Windows shorter than the indicator periods (Spec) *)

\* C30: on every non-empty window of fewer than 15 bars analyze_market_v2
\* yields ADX 0, RSI-14 50, regime RANGING and strategy MEAN_REVERSION, and
\* generate_signal on that state returns the action HOLD, whatever the
\* prices and the volumes of the window are.
C30_ShortWindowHolds ==
    (Len(close) >= 1 /\ Len(close) < rsi_period + 1) =>
        /\ state # NoState =>
               /\ state.adx = 0
               /\ state.rsi_14 = 50 * Dec2
               /\ state.regime = "RANGING"
               /\ state.strategy = "MEAN_REVERSION"
        /\ signal # NoSignal => signal.action = "HOLD"

\* a rising 14-bar window whose last volume differs from the others: the
\* fast RSI is 100 and the signal is still HOLD
C30_Witness ==
    /\ pc = "signalled"
    /\ Len(close) = rsi_period
    /\ close[Len(close)] > close[1]
    /\ state.rsi_7 = 100 * Dec2
    /\ state.rsi_14 = 50 * Dec2
    /\ state.adx = 0
    /\ volume[Len(volume)] # volume[1]
    /\ signal.action = "HOLD"

=============================================================================
